---- MODULE Spec2Model ----
(***************************************************************************)
(* Model of the topology manager of the driver (type Topology): Connect,   *)
(* Disconnect, Subscribe, Unsubscribe, SelectServer, FindServer,           *)
(* RequestImmediateCheck, the monitors' update callback (apply) and SRV    *)
(* polling, as concurrent goroutines over two mutexes, one atomic state    *)
(* word and one atomic snapshot cell.                                      *)
(***************************************************************************)
EXTENDS Integers, Sequences, FiniteSets, TLC

\* ------------------------------------------------------------------ bounds

\* Spec: descriptions delivered by monitors, calls of Connect and ticks of
\* the SRV polling task in one behaviour.
MaxUpdates == 1
MaxConnects == 1
MaxPolls == 1

\* ------------------------------------------------------------ value domain

\* Every address of the model in lexicographic order; monitors report about
\* the first two, the others are hosts that only DNS answers and host lists
\* of replica-set members name.
AddrOrder == <<"a", "b", "c", "d">>
Addrs == {AddrOrder[i] : i \in 1..2}

\* Seed spellings; "A" is a second spelling of host "a".
Canonicalize(h) == IF h = "A" THEN "a" ELSE h

NoTV == [pid |-> "none", ctr |-> 0]

NewDefaultServer(addr) ==
  [Addr |-> addr, Kind |-> "Unknown", WireOK |-> TRUE, SetName |-> "",
   Hosts |-> {}, SetVersion |-> 0, ElectionID |-> 0, TV |-> NoTV, LSTM |-> 0]

EmptyTopology ==
  [Kind |-> "Unknown", Servers |-> <<>>, SetName |-> "", MaxSetVersion |-> 0,
   MaxElectionID |-> 0, SessionTimeoutMinutes |-> 0, CompatibilityErr |-> FALSE]

\* The server a load-balanced topology holds once connected.
LoadBalancerServer(addr) == [NewDefaultServer(addr) EXCEPT !.Kind = "LoadBalancer"]

ServerAddrs(srvs) == {srvs[i].Addr : i \in 1..Len(srvs)}

\* fsm.findServer: index of the first server with that address, 0 when absent.
findServer(srvs, addr) ==
  IF addr \in ServerAddrs(srvs)
  THEN CHOOSE i \in 1..Len(srvs) :
         /\ srvs[i].Addr = addr
         /\ \A j \in 1..(i - 1) : srvs[j].Addr # addr
  ELSE 0

RECURSIVE SelectSeqBy(_, _)
\* The subsequence of the servers whose address is in keep.
SelectSeqBy(srvs, keep) ==
  IF srvs = <<>> THEN <<>>
  ELSE IF Head(srvs).Addr \in keep
       THEN <<Head(srvs)>> \o SelectSeqBy(Tail(srvs), keep)
       ELSE SelectSeqBy(Tail(srvs), keep)

\* fsm.removeServerByAddr
removeServerByAddr(srvs, addr) == SelectSeqBy(srvs, ServerAddrs(srvs) \ {addr})

\* fsm.setServer / replaceServer: store s at the place of its address.
replaceServer(srvs, s) ==
  LET i == findServer(srvs, s.Addr)
  IN IF i = 0 THEN srvs ELSE [srvs EXCEPT ![i] = s]

\* The addresses of S in lexicographic order.
SetToSeq(S) == SelectSeq(AddrOrder, LAMBDA x : x \in S)

RECURSIVE addServers(_, _)
\* fsm.addServer for each address of the sequence not yet present.
addServers(srvs, addrSeq) ==
  IF addrSeq = <<>> THEN srvs
  ELSE IF Head(addrSeq) \in ServerAddrs(srvs)
       THEN addServers(srvs, Tail(addrSeq))
       ELSE addServers(Append(srvs, NewDefaultServer(Head(addrSeq))), Tail(addrSeq))

\* ------------------------------------------------------------ the SDAM FSM

DataBearingKinds == {"Standalone", "RSPrimary", "RSSecondary", "Mongos", "LoadBalancer"}
RSMemberKinds == {"RSSecondary", "RSArbiter", "RSOther"}

\* logicalSessionTimeoutMinutes of a topology: the minimum across the
\* data-bearing members, absent (0) when one of them lacks it or there is none.
SessionTimeout(srvs) ==
  LET db == {i \in 1..Len(srvs) : srvs[i].Kind \in DataBearingKinds}
  IN IF db = {} \/ \E i \in db : srvs[i].LSTM = 0 THEN 0
     ELSE LET m == CHOOSE i \in db : \A j \in db : srvs[i].LSTM <= srvs[j].LSTM
          IN srvs[m].LSTM

\* compatible(): every server's wire range overlaps the driver's.
Incompatible(srvs) == \E i \in 1..Len(srvs) : ~srvs[i].WireOK

HasPrimary(srvs) == \E i \in 1..Len(srvs) : srvs[i].Kind = "RSPrimary"

checkIfHasPrimary(f) ==
  [f EXCEPT !.Kind = IF HasPrimary(f.Servers) THEN "ReplicaSetWithPrimary"
                     ELSE "ReplicaSetNoPrimary"]

\* (sv1, e1) < (sv2, e2) lexicographically.
PairLess(sv1, e1, sv2, e2) == sv1 < sv2 \/ (sv1 = sv2 /\ e1 < e2)

FsmResult(f, s, chk) == [topo |-> f, desc |-> s, check |-> chk]

\* Primary rules: a description of kind RSPrimary in a replica-set topology.
updateRSFromPrimary(f, s) ==
  IF f.SetName # "" /\ f.SetName # s.SetName
  THEN FsmResult(checkIfHasPrimary(
         [f EXCEPT !.Servers = removeServerByAddr(f.Servers, s.Addr)]), s, FALSE)
  ELSE IF PairLess(s.SetVersion, s.ElectionID, f.MaxSetVersion, f.MaxElectionID)
  THEN FsmResult(checkIfHasPrimary(
         [f EXCEPT !.Servers = replaceServer(f.Servers, NewDefaultServer(s.Addr))]),
         NewDefaultServer(s.Addr), TRUE)
  ELSE LET demoted == [i \in 1..Len(f.Servers) |->
                         IF f.Servers[i].Kind = "RSPrimary" /\ f.Servers[i].Addr # s.Addr
                         THEN NewDefaultServer(f.Servers[i].Addr)
                         ELSE f.Servers[i]]
           added == addServers(replaceServer(demoted, s), SetToSeq(s.Hosts))
           kept == SelectSeqBy(added, s.Hosts)
       IN FsmResult(checkIfHasPrimary(
            [f EXCEPT !.SetName = s.SetName,
                      !.MaxSetVersion = s.SetVersion,
                      !.MaxElectionID = s.ElectionID,
                      !.Servers = kept]), s, FALSE)

\* A secondary, arbiter or other member while no primary is known.
updateRSWithoutPrimary(f, s) ==
  IF f.SetName # "" /\ f.SetName # s.SetName
  THEN FsmResult(checkIfHasPrimary(
         [f EXCEPT !.Servers = removeServerByAddr(f.Servers, s.Addr)]), s, FALSE)
  ELSE FsmResult(checkIfHasPrimary(
         [f EXCEPT !.SetName = s.SetName,
                   !.Servers = addServers(replaceServer(f.Servers, s),
                                          SetToSeq(s.Hosts))]), s, FALSE)

\* A secondary, arbiter or other member while a primary is recorded.
updateRSWithPrimaryFromMember(f, s) ==
  IF f.SetName # s.SetName
  THEN FsmResult(checkIfHasPrimary(
         [f EXCEPT !.Servers = removeServerByAddr(f.Servers, s.Addr)]), s, FALSE)
  ELSE FsmResult(checkIfHasPrimary(
         [f EXCEPT !.Servers = replaceServer(f.Servers, s)]), s, FALSE)

fsmReplace(f, s) == [f EXCEPT !.Servers = replaceServer(f.Servers, s)]
fsmRemove(f, s) == [f EXCEPT !.Servers = removeServerByAddr(f.Servers, s.Addr)]

applyToUnknown(f, s) ==
  CASE s.Kind = "Standalone" ->
         IF Len(f.Servers) = 1
         THEN FsmResult([fsmReplace(f, s) EXCEPT !.Kind = "Single"], s, FALSE)
         ELSE FsmResult(fsmRemove(f, s), s, FALSE)
    [] s.Kind = "Mongos" ->
         FsmResult([fsmReplace(f, s) EXCEPT !.Kind = "Sharded"], s, FALSE)
    [] s.Kind = "RSPrimary" ->
         updateRSFromPrimary([f EXCEPT !.Kind = "ReplicaSetNoPrimary"], s)
    [] s.Kind \in RSMemberKinds ->
         updateRSWithoutPrimary([f EXCEPT !.Kind = "ReplicaSetNoPrimary"], s)
    [] s.Kind = "RSGhost" ->
         FsmResult([fsmReplace(f, s) EXCEPT !.Kind = "ReplicaSetNoPrimary"], s, FALSE)
    [] OTHER -> FsmResult(fsmReplace(f, s), s, FALSE)

applyToSingle(f, s) == FsmResult(fsmReplace(f, s), s, FALSE)

applyToSharded(f, s) ==
  IF s.Kind \in {"Mongos", "Unknown"}
  THEN FsmResult(fsmReplace(f, s), s, FALSE)
  ELSE FsmResult(fsmRemove(f, s), s, FALSE)

applyToReplicaSetNoPrimary(f, s) ==
  CASE s.Kind = "RSPrimary" -> updateRSFromPrimary(f, s)
    [] s.Kind \in RSMemberKinds -> updateRSWithoutPrimary(f, s)
    [] s.Kind \in {"RSGhost", "Unknown"} -> FsmResult(fsmReplace(f, s), s, FALSE)
    [] OTHER -> FsmResult(fsmRemove(f, s), s, FALSE)

applyToReplicaSetWithPrimary(f, s) ==
  CASE s.Kind = "RSPrimary" -> updateRSFromPrimary(f, s)
    [] s.Kind \in RSMemberKinds -> updateRSWithPrimaryFromMember(f, s)
    [] s.Kind \in {"RSGhost", "Unknown"} ->
         FsmResult(checkIfHasPrimary(fsmReplace(f, s)), s, FALSE)
    [] OTHER -> FsmResult(checkIfHasPrimary(fsmRemove(f, s)), s, FALSE)

\* fsm.apply: (current topology, incoming description) -> (next topology, the
\* description to store, whether an immediate re-check is requested).
fsmApply(f, s) ==
  LET r == CASE f.Kind = "Unknown" -> applyToUnknown(f, s)
             [] f.Kind = "Single" -> applyToSingle(f, s)
             [] f.Kind = "Sharded" -> applyToSharded(f, s)
             [] f.Kind = "ReplicaSetNoPrimary" -> applyToReplicaSetNoPrimary(f, s)
             [] f.Kind = "ReplicaSetWithPrimary" -> applyToReplicaSetWithPrimary(f, s)
             [] OTHER -> FsmResult(f, s, FALSE)
  IN [r EXCEPT !.topo = [r.topo EXCEPT
        !.SessionTimeoutMinutes = SessionTimeout(r.topo.Servers),
        !.CompatibilityErr = Incompatible(r.topo.Servers)]]

\* TopologyVersion.CompareToIncoming: > 0 only when both come from the same
\* process and the stored counter is greater.
CompareToIncoming(old, incoming) ==
  IF old = NoTV \/ incoming = NoTV \/ old.pid # incoming.pid THEN -1
  ELSE IF old.ctr = incoming.ctr THEN 0
  ELSE IF old.ctr < incoming.ctr THEN -1 ELSE 1

\* diffTopology: the addresses added to and removed from the server list.
diffTopology(prev, cur) ==
  [Added |-> ServerAddrs(cur.Servers) \ ServerAddrs(prev.Servers),
   Removed |-> ServerAddrs(prev.Servers) \ ServerAddrs(cur.Servers)]

\* diffHostList: the resolved hosts against the FSM's server list.
diffHostList(topo, hosts) ==
  [Added |-> SelectSeq(hosts, LAMBDA h : h \notin ServerAddrs(topo.Servers)),
   Removed |-> ServerAddrs(topo.Servers) \ {hosts[i] : i \in 1..Len(hosts)}]

\* The descriptions a monitor of addr may deliver.
Mongos(addr) == [NewDefaultServer(addr) EXCEPT !.Kind = "Mongos", !.LSTM = 30]
Standalone(addr) == [NewDefaultServer(addr) EXCEPT !.Kind = "Standalone", !.LSTM = 30]
Primary(addr) ==
  [NewDefaultServer(addr) EXCEPT !.Kind = "RSPrimary", !.SetName = "rs0",
     !.Hosts = Addrs, !.SetVersion = 1, !.ElectionID = 1, !.LSTM = 30]
Secondary(addr) ==
  [NewDefaultServer(addr) EXCEPT !.Kind = "RSSecondary", !.SetName = "rs0",
     !.Hosts = Addrs, !.LSTM = 30]
OldWire(addr) == [Mongos(addr) EXCEPT !.WireOK = FALSE]

\* ------------------------------------------------------------------ state

Callers == {"l1", "l2"}        \* goroutines calling Connect and Disconnect
Clients == {"s1", "s2"}        \* goroutines calling Subscribe, reading, Unsubscribe
Selectors == {"q1"}            \* goroutines calling SelectServer

VARIABLES
  cfg,                  \* t.cfg and t.pollingRequired, fixed at construction
  connectionstate,      \* t.connectionstate (atomic)
  desc,                 \* t.desc (atomic cell)
  fsm,                  \* t.fsm.Topology
  servers,              \* t.servers: address -> "running" | "stopped"
  serversClosed,        \* t.serversClosed
  serversLock,          \* t.serversLock: "free" | "held"
  subscribers,          \* t.subscribers: id -> owner of the channel
  currentSubscriberID,  \* t.currentSubscriberID
  subscriptionsClosed,  \* t.subscriptionsClosed
  subLock,              \* t.subLock: "free" | "held"
  chans,                \* the channel made by each subscribing goroutine
  upd,                  \* the update (apply or SRV) that holds serversLock
  caller,               \* per caller: position and last result
  poll,                 \* the SRV polling goroutine
  client,               \* per client: position, handle, last description read
  sel,                  \* per SelectServer call: position and locals
  evlog,                \* the events published by the latest publishing step
  monitored,            \* addresses whose monitor goroutine was started
  nUpdates, nConnects, nPolls,   \* updates, Connect calls, SRV ticks so far
  lim,                  \* the bounds of the behaviour on these three
  exec                  \* the client layer: its session pool and the operation being executed

topoVars == <<connectionstate, desc, fsm, servers, serversClosed, serversLock,
              subscribers, currentSubscriberID, subscriptionsClosed, subLock,
              chans, upd, poll, evlog, monitored>>
vars == <<cfg, connectionstate, desc, fsm, servers, serversClosed, serversLock,
          subscribers, currentSubscriberID, subscriptionsClosed, subLock, chans,
          upd, caller, poll, client, sel, evlog, monitored,
          nUpdates, nConnects, nPolls, lim, exec>>

Config(seeds, rs, mode, lb, srv, maxHosts, sst) ==
  [seedList |-> seeds, replicaSetName |-> rs, mode |-> mode, loadBalanced |-> lb,
   srv |-> srv, srvMaxHosts |-> maxHosts, serverSelectionTimeout |-> sst]

\* New: polling is required for an SRV URI outside load-balanced mode.
pollingRequired == cfg.srv /\ ~cfg.loadBalanced

\* A channel of capacity 1: its buffer, whether it is closed, the number of
\* close calls made on it, and the snapshot stored when it was closed.
NoChan == [buf |-> <<>>, closed |-> FALSE, closes |-> 0, term |-> EmptyTopology]
\* The update in progress, and the argument and the return value of the last
\* call of apply.
NoUpd == [kind |-> "none", stage |-> "none", current |-> EmptyTopology,
          pending |-> {}, at |-> -1,
          arg |-> NewDefaultServer(""), ret |-> NewDefaultServer("")]
NoSel == [pc |-> "idle", timer |-> "off", ctxDone |-> FALSE, sub |-> -1,
          looped |-> FALSE, examined |-> EmptyTopology, offered |-> {},
          consulted |-> FALSE, suitable |-> {}, selected |-> NewDefaultServer(""),
          found |-> "none",
          result |-> "none"]
PollOff == [pc |-> "off", hosts |-> <<>>, heartbeatTime |-> FALSE]
\* No operation in progress. n documents 1..n in batches of at most size;
\* next is the first document not yet acknowledged, attempts the wire
\* attempts of the current command, sent those of the whole operation, cmds
\* the commands started, delivered the documents the server applied; rtt,
\* threshold, window and selected belong to the server selection of the
\* attempt about to be sent.
NoExec == [mongo |-> [state |-> "new", sessionPool |-> FALSE, session |-> "none"],
           pc |-> "idle", op |-> "none", deployment |-> FALSE,
           runs |-> 0, N |-> 0, N0 |-> 0,
           replies |-> <<>>,
           n |-> 0, size |-> 0, ordered |-> FALSE, retryable |-> FALSE,
           next |-> 1, fresh |-> TRUE, attempts |-> 0, sent |-> 0, cmds |-> 0,
           delivered |-> <<>>, failed |-> {}, rtt |-> <<>>, threshold |-> 0,
           window |-> {}, selected |-> "", result |-> "none"]

\* The bounds of a behaviour: the numbers of monitor updates, Connect calls
\* and SRV polls, whether the calls of apply are recorded, and the number of
\* Execute calls made on one operation value.
Limits(u, c, p) ==
  [updates |-> u, connects |-> c, polls |-> p, record |-> FALSE, runs |-> 1]

\* New: the state of a topology after construction, for a set of
\* configurations and the bounds of the behaviour.
InitWith(configs, limits) ==
  /\ cfg \in configs
  /\ lim = limits
  /\ connectionstate = "disconnected"
  /\ desc = EmptyTopology
  /\ fsm = EmptyTopology
  /\ servers = << >>
  /\ serversClosed = FALSE
  /\ serversLock = "free"
  /\ subscribers = << >>
  /\ currentSubscriberID = 0
  /\ subscriptionsClosed = FALSE
  /\ subLock = "free"
  /\ chans = [x \in Clients \cup Selectors |-> NoChan]
  /\ upd = NoUpd
  /\ caller = [l \in Callers |-> [pc |-> "idle", ret |-> "none"]]
  /\ poll = PollOff
  /\ client = [c \in Clients |-> [pc |-> "idle", id |-> -1, obs |-> <<>>, ret |-> "none"]]
  /\ sel = [q \in Selectors |-> NoSel]
  /\ evlog = <<>>
  /\ monitored = {}
  /\ nUpdates = 0 /\ nConnects = 0 /\ nPolls = 0
  /\ exec = NoExec

\* ----------------------------------------------------------------- events

TopologyDescriptionChanged(prev, cur, snap) ==
  [type |-> "TopologyDescriptionChanged", prev |-> prev, cur |-> cur, snap |-> snap]
ServerDescriptionChanged(prev, cur) ==
  [type |-> "ServerDescriptionChanged", prev |-> prev, cur |-> cur]
ServerClosed(addr) == [type |-> "ServerClosed", addr |-> addr]
TopologyClosed == [type |-> "TopologyClosed"]

ServerClosedEvents(addrs) ==
  LET s == SetToSeq(addrs) IN [i \in 1..Len(s) |-> ServerClosed(s[i])]

\* ------------------------------------------------------------ map helpers

Restrict(m, keys) == [x \in DOMAIN m \cap keys |-> m[x]]
\* t.servers[addr] = svr for every address of A that has no entry yet.
AddRunning(m, A) ==
  [x \in DOMAIN m \cup A |-> IF x \in DOMAIN m THEN m[x] ELSE "running"]
MapPut(m, k, v) == [x \in DOMAIN m \cup {k} |-> IF x = k THEN v ELSE m[x]]
CanonSeeds == [i \in 1..Len(cfg.seedList) |-> Canonicalize(cfg.seedList[i])]

SetCaller(l, pc, ret) == caller' = [caller EXCEPT ![l] = [pc |-> pc, ret |-> ret]]
GoCaller(l, pc) == caller' = [caller EXCEPT ![l].pc = pc]

\* ------------------------------------------------------- Connect, Disconnect

\* A caller enters Connect.
CallConnect(l) ==
  /\ caller[l].pc = "idle"
  /\ nConnects < lim.connects
  /\ nConnects' = nConnects + 1
  /\ GoCaller(l, "Connect")
  /\ UNCHANGED <<cfg, topoVars, client, sel, nUpdates, nPolls, lim, exec>>

\* Connect with a plain store in place of the CompareAndSwap.
ConnectCASBlind(l) ==
  /\ caller[l].pc = "Connect"
  /\ connectionstate' = "connecting"
  /\ GoCaller(l, "c_store")
  /\ UNCHANGED <<cfg, desc, fsm, servers, serversClosed, serversLock, subscribers,
                 currentSubscriberID, subscriptionsClosed, subLock, chans, upd, poll,
                 client, sel, evlog, monitored, nUpdates, nConnects, nPolls, lim, exec>>

\* Connect: CompareAndSwap(disconnected, connecting), else ErrTopologyConnected.
ConnectCAS(l) ==
  /\ caller[l].pc = "Connect"
  /\ IF connectionstate = "disconnected"
     THEN /\ connectionstate' = "connecting"
          /\ GoCaller(l, "c_store")
     ELSE /\ SetCaller(l, "idle", "ErrTopologyConnected")
          /\ UNCHANGED connectionstate
  /\ UNCHANGED <<cfg, desc, fsm, servers, serversClosed, serversLock, subscribers,
                 currentSubscriberID, subscriptionsClosed, subLock, chans, upd, poll,
                 client, sel, evlog, monitored, nUpdates, nConnects, nPolls, lim, exec>>

\* Connect: t.desc.Store(description.Topology{}).
ConnectStore(l) ==
  /\ caller[l].pc = "c_store"
  /\ desc' = EmptyTopology
  /\ GoCaller(l, "c_servers")
  /\ UNCHANGED <<cfg, connectionstate, fsm, servers, serversClosed, serversLock,
                 subscribers, currentSubscriberID, subscriptionsClosed, subLock, chans,
                 upd, poll, client, sel, evlog, monitored, nUpdates, nConnects, nPolls, lim, exec>>

\* Connect: the FSM as set up from the configuration and the seed list.
ConnectFsm ==
  LET f0 == IF cfg.replicaSetName # ""
            THEN [fsm EXCEPT !.SetName = cfg.replicaSetName,
                             !.Kind = "ReplicaSetNoPrimary"]
            ELSE fsm
      f1 == IF cfg.mode = "Single" THEN [f0 EXCEPT !.Kind = "Single"] ELSE f0
  IN [f1 EXCEPT !.Servers =
        f1.Servers \o [i \in 1..Len(CanonSeeds) |-> NewDefaultServer(CanonSeeds[i])]]

\* Connect in load-balanced mode, under serversLock: the three mocked events
\* and the single server; failed says that ConnectServer returns an error.
ConnectLoadBalanced(l, failed) ==
  LET f3 == [ConnectFsm EXCEPT !.Kind = "LoadBalanced"]
      ev1 == TopologyDescriptionChanged(EmptyTopology, f3, desc)
      addr == CanonSeeds[1]
      newServerDesc == LoadBalancerServer(addr)
      f4 == [f3 EXCEPT !.Servers = <<newServerDesc>>]
  IN IF failed
     THEN /\ addr \notin DOMAIN servers
          /\ fsm' = f3
          /\ evlog' = <<ev1>>
          /\ SetCaller(l, "idle", "ErrConnectServer")
          /\ UNCHANGED <<desc, servers>>
     ELSE /\ fsm' = f4
          /\ servers' = AddRunning(servers, {addr})
          /\ desc' = f4
          /\ evlog' = <<ev1, ServerDescriptionChanged(f3.Servers[1], newServerDesc),
                        TopologyDescriptionChanged(f3, f4, f4)>>
          /\ GoCaller(l, "c_post")
  
\* Connect outside load-balanced mode, under serversLock: the snapshot, the
\* event and a monitor per seed; failAt > 0 says that ConnectServer returns an
\* error for that seed.
ConnectDefault(l, failAt) ==
  LET f2 == ConnectFsm
      newDesc == [EmptyTopology EXCEPT !.Kind = f2.Kind, !.Servers = f2.Servers,
                    !.SessionTimeoutMinutes = f2.SessionTimeoutMinutes]
      n == Len(CanonSeeds)
      done == {CanonSeeds[i] : i \in 1..(IF failAt = 0 THEN n ELSE failAt - 1)}
  IN /\ failAt > 0 => CanonSeeds[failAt] \notin (DOMAIN servers \cup done)
     /\ fsm' = f2
     /\ desc' = newDesc
     /\ evlog' = <<TopologyDescriptionChanged(EmptyTopology, f2, newDesc)>>
     /\ servers' = AddRunning(servers, done)
     /\ monitored' = monitored \cup (done \ DOMAIN servers)
     /\ IF failAt > 0 THEN SetCaller(l, "idle", "ErrConnectServer")
        ELSE GoCaller(l, "c_post")

\* Connect: the section under serversLock.
ConnectServers(l) ==
  /\ caller[l].pc = "c_servers"
  /\ serversLock = "free"
  /\ IF cfg.loadBalanced
     THEN /\ \E failed \in BOOLEAN : ConnectLoadBalanced(l, failed)
          /\ UNCHANGED monitored
     ELSE \E failAt \in 0..Len(cfg.seedList) : ConnectDefault(l, failAt)
  /\ UNCHANGED <<cfg, connectionstate, serversClosed, serversLock, subscribers,
                 currentSubscriberID, subscriptionsClosed, subLock, chans, upd, poll,
                 client, sel, nUpdates, nConnects, nPolls, lim, exec>>

\* Connect: start SRV polling, reopen the subscriptions.
ConnectPost(l) ==
  /\ caller[l].pc = "c_post"
  /\ poll' = IF pollingRequired THEN [PollOff EXCEPT !.pc = "wait"] ELSE poll
  /\ subscriptionsClosed' = FALSE
  /\ GoCaller(l, "c_fin")
  /\ UNCHANGED <<cfg, connectionstate, desc, fsm, servers, serversClosed, serversLock,
                 subscribers, currentSubscriberID, subLock, chans, upd, client, sel,
                 evlog, monitored, nUpdates, nConnects, nPolls, lim, exec>>

\* Connect: atomic.StoreInt64(&t.connectionstate, connected).
ConnectFin(l) ==
  /\ caller[l].pc = "c_fin"
  /\ connectionstate' = "connected"
  /\ SetCaller(l, "idle", "ok")
  /\ UNCHANGED <<cfg, desc, fsm, servers, serversClosed, serversLock, subscribers,
                 currentSubscriberID, subscriptionsClosed, subLock, chans, upd, poll,
                 client, sel, evlog, monitored, nUpdates, nConnects, nPolls, lim, exec>>

\* A caller enters Disconnect.
CallDisconnect(l) ==
  /\ caller[l].pc = "idle"
  /\ GoCaller(l, "Disconnect")
  /\ UNCHANGED <<cfg, topoVars, client, sel, nUpdates, nConnects, nPolls, lim, exec>>

\* Disconnect with a plain store in place of the CompareAndSwap.
DisconnectCASBlind(l) ==
  /\ caller[l].pc = "Disconnect"
  /\ connectionstate' = "disconnecting"
  /\ GoCaller(l, "d_servers")
  /\ UNCHANGED <<cfg, desc, fsm, servers, serversClosed, serversLock, subscribers,
                 currentSubscriberID, subscriptionsClosed, subLock, chans, upd, poll,
                 client, sel, evlog, monitored, nUpdates, nConnects, nPolls, lim, exec>>

\* Disconnect: CompareAndSwap(connected, disconnecting), else ErrTopologyClosed.
DisconnectCAS(l) ==
  /\ caller[l].pc = "Disconnect"
  /\ IF connectionstate = "connected"
     THEN /\ connectionstate' = "disconnecting"
          /\ GoCaller(l, "d_servers")
     ELSE /\ SetCaller(l, "idle", "ErrTopologyClosed")
          /\ UNCHANGED connectionstate
  /\ UNCHANGED <<cfg, desc, fsm, servers, serversClosed, serversLock, subscribers,
                 currentSubscriberID, subscriptionsClosed, subLock, chans, upd, poll,
                 client, sel, evlog, monitored, nUpdates, nConnects, nPolls, lim, exec>>

\* Disconnect: mark the servers closed under serversLock, then disconnect each
\* server of the map and publish ServerClosed for it.
DisconnectServers(l) ==
  /\ caller[l].pc = "d_servers"
  /\ serversLock = "free"
  /\ serversClosed' = TRUE
  /\ servers' = [a \in DOMAIN servers |-> "stopped"]
  /\ evlog' = ServerClosedEvents(DOMAIN servers)
  /\ GoCaller(l, "d_subs")
  /\ UNCHANGED <<cfg, connectionstate, desc, fsm, serversLock, subscribers,
                 currentSubscriberID, subscriptionsClosed, subLock, chans, upd, poll,
                 client, sel, monitored, nUpdates, nConnects, nPolls, lim, exec>>

\* Disconnect closing the subscribers without marking the subscriptions
\* closed.
DisconnectSubscribersOpen(l) ==
  /\ caller[l].pc = "d_subs"
  /\ subLock = "free"
  /\ LET owners == {subscribers[i] : i \in DOMAIN subscribers}
     IN chans' = [x \in DOMAIN chans |->
                    IF x \in owners
                    THEN [chans[x] EXCEPT !.closed = TRUE, !.closes = @ + 1, !.term = desc]
                    ELSE chans[x]]
  /\ subscribers' = << >>
  /\ GoCaller(l, IF pollingRequired THEN "d_poll" ELSE "d_store")
  /\ UNCHANGED <<cfg, connectionstate, desc, fsm, servers, serversClosed, serversLock,
                 currentSubscriberID, subscriptionsClosed, subLock, upd, poll, client,
                 sel, evlog, monitored, nUpdates, nConnects, nPolls, lim, exec>>

\* Disconnect: close and delete every subscriber under subLock.
DisconnectSubscribers(l) ==
  /\ caller[l].pc = "d_subs"
  /\ subLock = "free"
  /\ LET owners == {subscribers[i] : i \in DOMAIN subscribers}
     IN chans' = [x \in DOMAIN chans |->
                    IF x \in owners
                    THEN [chans[x] EXCEPT !.closed = TRUE, !.closes = @ + 1, !.term = desc]
                    ELSE chans[x]]
  /\ subscribers' = << >>
  /\ subscriptionsClosed' = TRUE
  /\ GoCaller(l, IF pollingRequired THEN "d_poll" ELSE "d_store")
  /\ UNCHANGED <<cfg, connectionstate, desc, fsm, servers, serversClosed, serversLock,
                 currentSubscriberID, subLock, upd, poll, client, sel, evlog,
                 monitored, nUpdates, nConnects, nPolls, lim, exec>>

\* A done signal that only a task waiting in its select receives.
DisconnectPollingInSelect(l) ==
  /\ caller[l].pc = "d_poll"
  /\ poll.pc = "wait"
  /\ poll' = PollOff
  /\ GoCaller(l, "d_store")
  /\ UNCHANGED <<cfg, connectionstate, desc, fsm, servers, serversClosed, serversLock,
                 subscribers, currentSubscriberID, subscriptionsClosed, subLock, chans,
                 upd, client, sel, evlog, monitored, nUpdates, nConnects, nPolls, lim, exec>>

\* Disconnect: t.pollingDone <- struct{}{} meets the polling goroutine's
\* receive (in its select or after it stopped polling); the goroutine exits
\* and pollingwg.Wait returns.
DisconnectPolling(l) ==
  /\ caller[l].pc = "d_poll"
  /\ poll.pc \in {"wait", "stopped"}
  /\ poll' = PollOff
  /\ GoCaller(l, "d_store")
  /\ UNCHANGED <<cfg, connectionstate, desc, fsm, servers, serversClosed, serversLock,
                 subscribers, currentSubscriberID, subscriptionsClosed, subLock, chans,
                 upd, client, sel, evlog, monitored, nUpdates, nConnects, nPolls, lim, exec>>

\* Disconnect: t.desc.Store(description.Topology{}).
DisconnectStore(l) ==
  /\ caller[l].pc = "d_store"
  /\ desc' = EmptyTopology
  /\ GoCaller(l, "d_fin")
  /\ UNCHANGED <<cfg, connectionstate, fsm, servers, serversClosed, serversLock,
                 subscribers, currentSubscriberID, subscriptionsClosed, subLock, chans,
                 upd, poll, client, sel, evlog, monitored, nUpdates, nConnects, nPolls, lim, exec>>

\* Disconnect: store disconnected, publish TopologyClosed.
DisconnectFin(l) ==
  /\ caller[l].pc = "d_fin"
  /\ connectionstate' = "disconnected"
  /\ evlog' = <<TopologyClosed>>
  /\ SetCaller(l, "idle", "ok")
  /\ UNCHANGED <<cfg, desc, fsm, servers, serversClosed, serversLock, subscribers,
                 currentSubscriberID, subscriptionsClosed, subLock, chans, upd, poll,
                 client, sel, monitored, nUpdates, nConnects, nPolls, lim, exec>>

\* ------------------------------------------------- monitor updates (apply)

\* The update in progress u with the argument and the return value of a call
\* of apply.
Recorded(u, arg, ret) == IF lim.record THEN [u EXCEPT !.arg = arg, !.ret = ret] ELSE u

\* apply that hands the incoming description back to the monitor in place of
\* the description the FSM returned.
ApplyChangeReturnsIncoming(s, failed) ==
  LET ind == findServer(fsm.Servers, s.Addr)
      prev == fsm
      oldDesc == fsm.Servers[ind]
      r == fsmApply(fsm, s)
      current == r.topo
      diff == diffTopology(prev, current)
      closed == diff.Removed \cap DOMAIN servers
      kept == Restrict(servers, DOMAIN servers \ diff.Removed)
      started == (diff.Added \ DOMAIN kept) \ failed
  IN /\ failed \subseteq diff.Added \ DOMAIN kept
     /\ fsm' = current
     /\ servers' = AddRunning(kept, started)
     /\ monitored' = monitored \cup started
     /\ desc' = current
     /\ evlog' = (IF oldDesc # r.desc
                  THEN <<ServerDescriptionChanged(oldDesc, r.desc)>> ELSE <<>>)
                 \o ServerClosedEvents(closed)
                 \o (IF prev # current
                     THEN <<TopologyDescriptionChanged(prev, current, current)>>
                     ELSE <<>>)
     /\ upd' = Recorded([NoUpd EXCEPT !.kind = "apply", !.stage = "lock",
                                      !.current = current], s, s)
     /\ serversLock' = "held"

\* apply that publishes the change in two steps, the incoming description
\* first and the hosts it added after it.
ApplyChangeTwoChanges(s, failed) ==
  LET ind == findServer(fsm.Servers, s.Addr)
      prev == fsm
      oldDesc == fsm.Servers[ind]
      r == fsmApply(fsm, s)
      current == r.topo
      diff == diffTopology(prev, current)
      closed == diff.Removed \cap DOMAIN servers
      kept == Restrict(servers, DOMAIN servers \ diff.Removed)
      started == (diff.Added \ DOMAIN kept) \ failed
      mid == [current EXCEPT !.Servers =
                SelectSeqBy(current.Servers, ServerAddrs(current.Servers) \ diff.Added)]
  IN /\ failed \subseteq diff.Added \ DOMAIN kept
     /\ fsm' = current
     /\ servers' = AddRunning(kept, started)
     /\ monitored' = monitored \cup started
     /\ desc' = current
     /\ evlog' = (IF oldDesc # r.desc
                  THEN <<ServerDescriptionChanged(oldDesc, r.desc)>> ELSE <<>>)
                 \o ServerClosedEvents(closed)
                 \o (IF prev # mid
                     THEN <<TopologyDescriptionChanged(prev, mid, mid)>> ELSE <<>>)
                 \o (IF mid # current
                     THEN <<TopologyDescriptionChanged(mid, current, current)>>
                     ELSE <<>>)
     /\ upd' = Recorded([NoUpd EXCEPT !.kind = "apply", !.stage = "lock",
                                      !.current = current], s, r.desc)
     /\ serversLock' = "held"

\* apply, from taking serversLock to storing the snapshot and publishing the
\* events; failed are the added addresses whose ConnectServer returns an error.
ApplyChange(s, failed) ==
  LET ind == findServer(fsm.Servers, s.Addr)
      prev == fsm
      oldDesc == fsm.Servers[ind]
      r == fsmApply(fsm, s)
      current == r.topo
      diff == diffTopology(prev, current)
      closed == diff.Removed \cap DOMAIN servers
      kept == Restrict(servers, DOMAIN servers \ diff.Removed)
      started == (diff.Added \ DOMAIN kept) \ failed
  IN /\ failed \subseteq diff.Added \ DOMAIN kept
     /\ fsm' = current
     /\ servers' = AddRunning(kept, started)
     /\ monitored' = monitored \cup started
     /\ desc' = current
     /\ evlog' = (IF oldDesc # r.desc
                  THEN <<ServerDescriptionChanged(oldDesc, r.desc)>> ELSE <<>>)
                 \o ServerClosedEvents(closed)
                 \o (IF prev # current
                     THEN <<TopologyDescriptionChanged(prev, current, current)>>
                     ELSE <<>>)
     /\ upd' = Recorded([NoUpd EXCEPT !.kind = "apply", !.stage = "lock",
                                      !.current = current], s, r.desc)
     /\ serversLock' = "held"

\* apply without the topologyVersion comparison.
ApplyDiscardsAnyVersion(s) ==
  LET ind == findServer(fsm.Servers, s.Addr)
  IN serversClosed \/ ind = 0

\* apply: whether the description is returned without touching the topology.
ApplyDiscards(s) ==
  LET ind == findServer(fsm.Servers, s.Addr)
  IN \/ serversClosed
     \/ ind = 0
     \/ CompareToIncoming(fsm.Servers[ind].TV, s.TV) > 0

\* An early return that hands back the stored description whenever there is
\* one.
ApplyEarlyReturnStored(s) ==
  LET ind == findServer(fsm.Servers, s.Addr)
  IN IF ind = 0 THEN s ELSE fsm.Servers[ind]

\* apply: what an early return hands back, the incoming description or the
\* stored one.
ApplyEarlyReturn(s) ==
  LET ind == findServer(fsm.Servers, s.Addr)
  IN IF serversClosed \/ ind = 0 THEN s ELSE fsm.Servers[ind]

\* The monitor of s.Addr delivers s through the update callback.
ApplyUpdate(s) ==
  /\ s.Addr \in monitored
  /\ serversLock = "free"
  /\ nUpdates < lim.updates
  /\ nUpdates' = nUpdates + 1
  /\ IF ApplyDiscards(s)
     THEN /\ upd' = Recorded(upd, s, ApplyEarlyReturn(s))
          /\ UNCHANGED <<fsm, servers, monitored, desc, evlog, serversLock>>
     ELSE \E failed \in SUBSET ServerAddrs(fsmApply(fsm, s).topo.Servers) :
            ApplyChange(s, failed)
  /\ UNCHANGED <<cfg, connectionstate, serversClosed, subscribers,
                 currentSubscriberID, subscriptionsClosed, subLock, chans, caller,
                 poll, client, sel, nConnects, nPolls, lim, exec>>

\* ------------------------------------------- publishing to the subscribers

\* t.subLock.Lock() of the update in progress; the range over t.subscribers.
PublishLock ==
  /\ upd.stage = "lock"
  /\ subLock = "free"
  /\ subLock' = "held"
  /\ upd' = [upd EXCEPT !.stage = "loop", !.pending = DOMAIN subscribers]
  /\ UNCHANGED <<cfg, connectionstate, desc, fsm, servers, serversClosed, serversLock,
                 subscribers, currentSubscriberID, subscriptionsClosed, chans, caller,
                 poll, client, sel, evlog, monitored, nUpdates, nConnects, nPolls, lim, exec>>

\* The publisher without its drain: it goes on to the send with whatever the
\* channel of subscriber id holds.
PublishDrainSkipped(id) ==
  /\ upd.stage = "loop"
  /\ upd.at = -1
  /\ id \in upd.pending
  /\ upd' = [upd EXCEPT !.at = id]
  /\ UNCHANGED <<cfg, connectionstate, desc, fsm, servers, serversClosed, serversLock,
                 subscribers, currentSubscriberID, subscriptionsClosed, subLock, chans,
                 caller, poll, client, sel, evlog, monitored, nUpdates, nConnects,
                 nPolls, lim, exec>>

\* select { case <-ch: default: } on the channel of subscriber id.
PublishDrain(id) ==
  /\ upd.stage = "loop"
  /\ upd.at = -1
  /\ id \in upd.pending
  /\ chans' = [chans EXCEPT ![subscribers[id]].buf = <<>>]
  /\ upd' = [upd EXCEPT !.at = id]
  /\ UNCHANGED <<cfg, connectionstate, desc, fsm, servers, serversClosed, serversLock,
                 subscribers, currentSubscriberID, subscriptionsClosed, subLock, caller,
                 poll, client, sel, evlog, monitored, nUpdates, nConnects, nPolls, lim, exec>>

\* A send on channel ch (capacity 1) can proceed: the channel is open and its
\* buffer is empty. A send on a closed channel panics, one on a full channel
\* blocks.
CanSend(ch) == ~ch.closed /\ ch.buf = <<>>

\* ch <- current on the channel just drained.
PublishSend ==
  /\ upd.stage = "loop"
  /\ upd.at # -1
  /\ CanSend(chans[subscribers[upd.at]])
  /\ chans' = [chans EXCEPT ![subscribers[upd.at]].buf = <<upd.current>>]
  /\ upd' = [upd EXCEPT !.at = -1, !.pending = upd.pending \ {upd.at}]
  /\ UNCHANGED <<cfg, connectionstate, desc, fsm, servers, serversClosed, serversLock,
                 subscribers, currentSubscriberID, subscriptionsClosed, subLock, caller,
                 poll, client, sel, evlog, monitored, nUpdates, nConnects, nPolls, lim, exec>>

\* An end of the range that releases serversLock and keeps subLock.
PublishUnlockKeepsSubLock ==
  /\ upd.stage = "loop"
  /\ upd.at = -1
  /\ upd.pending = {}
  /\ serversLock' = "free"
  /\ poll' = IF upd.kind = "srv" THEN [poll EXCEPT !.pc = "wait"] ELSE poll
  /\ upd' = [NoUpd EXCEPT !.arg = upd.arg, !.ret = upd.ret]
  /\ UNCHANGED <<cfg, connectionstate, desc, fsm, servers, serversClosed, subscribers,
                 currentSubscriberID, subscriptionsClosed, subLock, chans, caller, client,
                 sel, evlog, monitored, nUpdates, nConnects, nPolls, lim, exec>>

\* The end of the range: release subLock and serversLock and return.
PublishUnlock ==
  /\ upd.stage = "loop"
  /\ upd.at = -1
  /\ upd.pending = {}
  /\ subLock' = "free"
  /\ serversLock' = "free"
  /\ poll' = IF upd.kind = "srv" THEN [poll EXCEPT !.pc = "wait"] ELSE poll
  /\ upd' = [NoUpd EXCEPT !.arg = upd.arg, !.ret = upd.ret]
  /\ UNCHANGED <<cfg, connectionstate, desc, fsm, servers, serversClosed, subscribers,
                 currentSubscriberID, subscriptionsClosed, chans, caller, client, sel,
                 evlog, monitored, nUpdates, nConnects, nPolls, lim, exec>>

\* ------------------------------------------------- Subscribe, Unsubscribe

\* Subscribe: ch := make(chan, 1); ch <- t.desc.Load().
SubscribeLoad(o) == chans' = [chans EXCEPT ![o] = [NoChan EXCEPT !.buf = <<desc>>]]

\* The registration without the increment of currentSubscriberID.
SubscribeRegisterSameID(o) ==
  /\ subscribers' = MapPut(subscribers, currentSubscriberID, o)
  /\ UNCHANGED currentSubscriberID

\* Subscribe under subLock, for a topology whose subscriptions are open:
\* register the channel under the next id.
SubscribeRegister(o) ==
  /\ subscribers' = MapPut(subscribers, currentSubscriberID, o)
  /\ currentSubscriberID' = currentSubscriberID + 1

\* Unsubscribe closing the channel but keeping its entry in the map.
UnsubscribeLockedKeeps(id) ==
  IF subscriptionsClosed \/ id \notin DOMAIN subscribers
  THEN UNCHANGED <<chans, subscribers>>
  ELSE /\ chans' = [chans EXCEPT ![subscribers[id]].closed = TRUE,
                                 ![subscribers[id]].closes = @ + 1]
       /\ UNCHANGED subscribers

\* Unsubscribe under subLock.
UnsubscribeLocked(id) ==
  IF subscriptionsClosed \/ id \notin DOMAIN subscribers
  THEN UNCHANGED <<chans, subscribers>>
  ELSE /\ chans' = [chans EXCEPT ![subscribers[id]].closed = TRUE,
                                 ![subscribers[id]].closes = @ + 1]
       /\ subscribers' = Restrict(subscribers, DOMAIN subscribers \ {id})

SetClient(c, pc, ret) == client' = [client EXCEPT ![c].pc = pc, ![c].ret = ret]

\* Subscribe: the check of the connection state.
ClientSubscribe(c) ==
  /\ client[c].pc = "idle"
  /\ IF connectionstate # "connected"
     THEN SetClient(c, "done", "ErrNotConnected")
     ELSE SetClient(c, "s_load", "none")
  /\ UNCHANGED <<cfg, topoVars, caller, sel, nUpdates, nConnects, nPolls, lim, exec>>

\* Subscribe: make the channel and put the loaded snapshot into it.
ClientSubscribeLoad(c) ==
  /\ client[c].pc = "s_load"
  /\ SubscribeLoad(c)
  /\ SetClient(c, "s_reg", "none")
  /\ UNCHANGED <<cfg, connectionstate, desc, fsm, servers, serversClosed, serversLock,
                 subscribers, currentSubscriberID, subscriptionsClosed, subLock, upd,
                 caller, poll, sel, evlog, monitored, nUpdates, nConnects, nPolls, lim, exec>>

\* The section under subLock without its check of subscriptionsClosed.
ClientSubscribeRegisterUnchecked(c) ==
  /\ client[c].pc = "s_reg"
  /\ subLock = "free"
  /\ SubscribeRegister(c)
  /\ client' = [client EXCEPT ![c].pc = "subscribed", ![c].ret = "ok",
                              ![c].id = currentSubscriberID]
  /\ UNCHANGED <<cfg, connectionstate, desc, fsm, servers, serversClosed, serversLock,
                 subscriptionsClosed, subLock, chans, upd, caller, poll, sel, evlog,
                 monitored, nUpdates, nConnects, nPolls, lim, exec>>

\* Subscribe: the section under subLock.
ClientSubscribeRegister(c) ==
  /\ client[c].pc = "s_reg"
  /\ subLock = "free"
  /\ IF subscriptionsClosed
     THEN /\ SetClient(c, "done", "ErrSubscribeAfterClosed")
          /\ UNCHANGED <<subscribers, currentSubscriberID>>
     ELSE /\ SubscribeRegister(c)
          /\ client' = [client EXCEPT ![c].pc = "subscribed", ![c].ret = "ok",
                                      ![c].id = currentSubscriberID]
  /\ UNCHANGED <<cfg, connectionstate, desc, fsm, servers, serversClosed, serversLock,
                 subscriptionsClosed, subLock, chans, upd, caller, poll, sel, evlog,
                 monitored, nUpdates, nConnects, nPolls, lim, exec>>

\* The holder of a subscription receives the buffered description.
ClientRead(c) ==
  /\ client[c].pc = "subscribed"
  /\ chans[c].buf # <<>>
  /\ client' = [client EXCEPT ![c].obs = chans[c].buf]
  /\ chans' = [chans EXCEPT ![c].buf = <<>>]
  /\ UNCHANGED <<cfg, connectionstate, desc, fsm, servers, serversClosed, serversLock,
                 subscribers, currentSubscriberID, subscriptionsClosed, subLock, upd,
                 caller, poll, sel, evlog, monitored, nUpdates, nConnects, nPolls, lim, exec>>

\* The holder of a subscription calls Unsubscribe, and calls it once more
\* with the same handle; every path of Unsubscribe returns nil.
ClientUnsubscribe(c) ==
  /\ client[c].pc \in {"subscribed", "unsubscribed"}
  /\ subLock = "free"
  /\ UnsubscribeLocked(client[c].id)
  /\ SetClient(c, IF client[c].pc = "subscribed" THEN "unsubscribed" ELSE "done", "ok")
  /\ UNCHANGED <<cfg, connectionstate, desc, fsm, servers, serversClosed, serversLock,
                 currentSubscriberID, subscriptionsClosed, subLock, upd, caller, poll,
                 sel, evlog, monitored, nUpdates, nConnects, nPolls, lim, exec>>

\* ------------------------------------------------------------ SRV polling

\* What a DNS resolution may return; the empty list stands for a DNS error or
\* no verified host.
DNSResults == {<<>>, <<"b">>, <<"a", "b">>}

\* The orders in which the added hosts are walked: any order after
\* random.Shuffle, else the order of the resolved list.
Shuffles(s) ==
  {[i \in 1..Len(s) |-> s[f[i]]] :
     f \in {g \in [1..Len(s) -> 1..Len(s)] : \A i, j \in 1..Len(s) : g[i] = g[j] => i = j}}

RECURSIVE srvAddLoop(_, _, _, _)
\* processSRVResults: add the hosts in order until srvMaxHosts monitors exist;
\* failed are the hosts whose ConnectServer returns an error.
srvAddLoop(m, fs, order, failed) ==
  IF order = <<>> THEN [servers |-> m, fsmServers |-> fs]
  ELSE IF cfg.srvMaxHosts > 0 /\ Cardinality(DOMAIN m) >= cfg.srvMaxHosts
  THEN [servers |-> m, fsmServers |-> fs]
  ELSE LET addr == Canonicalize(Head(order))
       IN srvAddLoop(IF addr \in failed THEN m ELSE AddRunning(m, {addr}),
                     addServers(fs, <<addr>>), Tail(order), failed)

\* A tick of the ticker that resolves the hosts whatever the snapshot kind.
PollTickAnyKind(hosts) ==
  /\ poll.pc = "wait"
  /\ nPolls < lim.polls
  /\ nPolls' = nPolls + 1
  /\ poll' = IF hosts = <<>>
             THEN [poll EXCEPT !.heartbeatTime = TRUE]
             ELSE [pc |-> "process", hosts |-> hosts, heartbeatTime |-> FALSE]
  /\ UNCHANGED <<cfg, connectionstate, desc, fsm, servers, serversClosed, serversLock,
                 subscribers, currentSubscriberID, subscriptionsClosed, subLock, chans,
                 upd, caller, client, sel, evlog, monitored, nUpdates, nConnects, lim, exec>>

\* pollSRVRecords: a tick of the ticker. The task stops polling unless the
\* snapshot kind is Unknown or Sharded, else resolves the hosts.
PollTick(hosts) ==
  /\ poll.pc = "wait"
  /\ nPolls < lim.polls
  /\ nPolls' = nPolls + 1
  /\ poll' = IF desc.Kind \notin {"Unknown", "Sharded"}
             THEN [poll EXCEPT !.pc = "stopped"]
             ELSE IF hosts = <<>>
             THEN [poll EXCEPT !.heartbeatTime = TRUE]
             ELSE [pc |-> "process", hosts |-> hosts, heartbeatTime |-> FALSE]
  /\ UNCHANGED <<cfg, connectionstate, desc, fsm, servers, serversClosed, serversLock,
                 subscribers, currentSubscriberID, subscriptionsClosed, subLock, chans,
                 upd, caller, client, sel, evlog, monitored, nUpdates, nConnects, lim, exec>>

\* processSRVResults, from the removals to storing the snapshot and publishing
\* the event.
SrvChange(order, failed) ==
  LET prev == fsm
      diff == diffHostList(fsm, poll.hosts)
      closed == diff.Removed \cap DOMAIN servers
      kept == Restrict(servers, DOMAIN servers \ closed)
      fsmKept == SelectSeqBy(fsm.Servers, ServerAddrs(fsm.Servers) \ closed)
      r == srvAddLoop(kept, fsmKept, order, failed)
      newDesc == [EmptyTopology EXCEPT !.Kind = fsm.Kind, !.Servers = r.fsmServers,
                    !.SessionTimeoutMinutes = fsm.SessionTimeoutMinutes]
  IN /\ failed \subseteq {diff.Added[i] : i \in 1..Len(diff.Added)}
     /\ order \in (IF cfg.srvMaxHosts > 0
                      /\ Cardinality(DOMAIN kept) + Len(diff.Added) > cfg.srvMaxHosts
                   THEN Shuffles(diff.Added) ELSE {diff.Added})
     /\ fsm' = [fsm EXCEPT !.Servers = r.fsmServers]
     /\ servers' = r.servers
     /\ monitored' = monitored \cup (DOMAIN r.servers \ DOMAIN kept)
     /\ desc' = newDesc
     /\ evlog' = ServerClosedEvents(closed)
                 \o (IF prev # newDesc
                     THEN <<TopologyDescriptionChanged(prev, newDesc, newDesc)>>
                     ELSE <<>>)
     /\ upd' = [NoUpd EXCEPT !.kind = "srv", !.stage = "lock", !.current = newDesc,
                             !.arg = upd.arg, !.ret = upd.ret]
     /\ serversLock' = "held"
     /\ poll' = [poll EXCEPT !.pc = "publishing", !.hosts = <<>>]

\* pollSRVRecords calls processSRVResults with the resolved hosts.
SrvProcess ==
  /\ poll.pc = "process"
  /\ serversLock = "free"
  /\ LET diff == diffHostList(fsm, poll.hosts)
     IN IF serversClosed
        THEN /\ poll' = [poll EXCEPT !.pc = "stopped", !.hosts = <<>>]
             /\ UNCHANGED <<fsm, servers, monitored, desc, evlog, upd, serversLock>>
        ELSE IF diff.Added = <<>> /\ diff.Removed = {}
        THEN /\ poll' = [poll EXCEPT !.pc = "wait", !.hosts = <<>>]
             /\ UNCHANGED <<fsm, servers, monitored, desc, evlog, upd, serversLock>>
        ELSE \E failed \in SUBSET {diff.Added[i] : i \in 1..Len(diff.Added)} :
               \E order \in Shuffles(diff.Added) : SrvChange(order, failed)
  /\ UNCHANGED <<cfg, connectionstate, serversClosed, subscribers,
                 currentSubscriberID, subscriptionsClosed, subLock, chans, caller,
                 client, sel, nUpdates, nConnects, nPolls, lim, exec>>

\* ----------------------------------------------------------- SelectServer

\* What the caller's selector may answer when consulted: an error, or the
\* servers at any set of addresses (a subset of those it was offered or not).
SelectorAnswers ==
  {[err |-> TRUE, addrs |-> {}]} \cup {[err |-> FALSE, addrs |-> S] : S \in SUBSET Addrs}

ServerSet(d) == {d.Servers[i] : i \in 1..Len(d.Servers)}

\* The offer without the filter on the kind: every server of the description.
AllowedUnfiltered(d) == ServerSet(d)

\* The servers of a description the selector is offered.
Allowed(d) == {s \in ServerSet(d) : s.Kind # "Unknown"}

\* The servers a selector returns for the addresses of its answer: those it
\* was offered, else those of the description, else descriptions of its own.
Answered(d, allowed, addrs) ==
  UNION {IF \E s \in allowed : s.Addr = x THEN {s \in allowed : s.Addr = x}
         ELSE IF \E s \in ServerSet(d) : s.Addr = x THEN {s \in ServerSet(d) : s.Addr = x}
         ELSE {NewDefaultServer(x)} : x \in addrs}

\* selectServerFromDescription without its check of the compatibility error.
selectServerFromDescriptionNoCompat(d, ans) ==
  IF d.Kind = "LoadBalanced"
  THEN [err |-> "none", suitable |-> ServerSet(d), consulted |-> FALSE, offered |-> {}]
  ELSE IF ans.err
  THEN [err |-> "SelectorErr", suitable |-> {}, consulted |-> TRUE, offered |-> Allowed(d)]
  ELSE [err |-> "none", suitable |-> Answered(d, Allowed(d), ans.addrs),
        consulted |-> TRUE, offered |-> Allowed(d)]

\* selectServerFromDescription without its shortcut for load-balanced mode.
selectServerFromDescriptionNoLB(d, ans) ==
  IF d.CompatibilityErr
  THEN [err |-> "CompatibilityErr", suitable |-> {}, consulted |-> FALSE, offered |-> {}]
  ELSE IF ans.err
  THEN [err |-> "SelectorErr", suitable |-> {}, consulted |-> TRUE, offered |-> Allowed(d)]
  ELSE [err |-> "none", suitable |-> Answered(d, Allowed(d), ans.addrs),
        consulted |-> TRUE, offered |-> Allowed(d)]

\* selectServerFromDescription: the suitable servers of description d, or an
\* error; ans is the selector's answer in case it is consulted.
selectServerFromDescription(d, ans) ==
  IF d.CompatibilityErr
  THEN [err |-> "CompatibilityErr", suitable |-> {}, consulted |-> FALSE, offered |-> {}]
  ELSE IF d.Kind = "LoadBalanced"
  THEN [err |-> "none", suitable |-> ServerSet(d), consulted |-> FALSE, offered |-> {}]
  ELSE IF ans.err
  THEN [err |-> "SelectorErr", suitable |-> {}, consulted |-> TRUE, offered |-> Allowed(d)]
  ELSE [err |-> "none", suitable |-> Answered(d, Allowed(d), ans.addrs),
        consulted |-> TRUE, offered |-> Allowed(d)]

\* SelectServer returns result; the deferred Unsubscribe runs first when the
\* call has subscribed.
Return(s, result) ==
  [s EXCEPT !.pc = IF s.sub = -1 THEN "done" ELSE "unsub", !.result = result]

\* SelectServer after selectServerFromDescription(d): return its error, go on
\* to FindServer with a random suitable server, or try again.
Evaluated(s, d, ans, pick, again) ==
  LET r == selectServerFromDescription(d, ans)
      s1 == [s EXCEPT !.examined = d, !.offered = r.offered,
                      !.consulted = r.consulted, !.suitable = r.suitable]
  IN IF r.err # "none" THEN Return(s1, r.err)
     ELSE IF r.suitable = {} THEN [s1 EXCEPT !.pc = again]
     ELSE [s1 EXCEPT !.pc = "find",
                     !.selected = IF \E x \in r.suitable : x.Addr = pick
                                  THEN CHOOSE x \in r.suitable : x.Addr = pick
                                  ELSE CHOOSE x \in r.suitable : TRUE]

\* SelectServer: the check of the connection state, the selection timer.
SelectStart(q) ==
  /\ sel[q].pc = "idle"
  /\ sel' = [sel EXCEPT ![q] =
       IF connectionstate # "connected"
       THEN Return(sel[q], "ErrTopologyClosed")
       ELSE [sel[q] EXCEPT !.pc = "first",
               !.timer = IF cfg.serverSelectionTimeout > 0 THEN "running" ELSE "off"]]
  /\ UNCHANGED <<cfg, topoVars, caller, client, nUpdates, nConnects, nPolls, lim, exec>>

\* SelectServer: the first pass, over the current snapshot.
SelectFirst(q, ans, pick) ==
  /\ sel[q].pc = "first"
  /\ LET s == Evaluated(sel[q], desc, ans, pick, "subscribe")
     IN sel' = [sel EXCEPT ![q] = [s EXCEPT !.looped = (s.pc = "subscribe")]]
  /\ UNCHANGED <<cfg, topoVars, caller, client, nUpdates, nConnects, nPolls, lim, exec>>

\* SelectServer calls Subscribe: the check of the connection state.
SelectSubscribe(q) ==
  /\ sel[q].pc = "subscribe"
  /\ sel' = [sel EXCEPT ![q] =
       IF connectionstate # "connected" THEN Return(sel[q], "ErrNotConnected")
       ELSE [sel[q] EXCEPT !.pc = "s_load"]]
  /\ UNCHANGED <<cfg, topoVars, caller, client, nUpdates, nConnects, nPolls, lim, exec>>

\* Subscribe: make the channel and put the loaded snapshot into it.
SelectSubscribeLoad(q) ==
  /\ sel[q].pc = "s_load"
  /\ SubscribeLoad(q)
  /\ sel' = [sel EXCEPT ![q].pc = "s_reg"]
  /\ UNCHANGED <<cfg, connectionstate, desc, fsm, servers, serversClosed, serversLock,
                 subscribers, currentSubscriberID, subscriptionsClosed, subLock, upd,
                 caller, poll, client, evlog, monitored, nUpdates, nConnects, nPolls, lim, exec>>

\* Subscribe: the section under subLock.
SelectSubscribeRegister(q) ==
  /\ sel[q].pc = "s_reg"
  /\ subLock = "free"
  /\ IF subscriptionsClosed
     THEN /\ sel' = [sel EXCEPT ![q] = Return(sel[q], "ErrSubscribeAfterClosed")]
          /\ UNCHANGED <<subscribers, currentSubscriberID>>
     ELSE /\ SubscribeRegister(q)
          /\ sel' = [sel EXCEPT ![q].pc = "wait", ![q].sub = currentSubscriberID]
  /\ UNCHANGED <<cfg, connectionstate, desc, fsm, servers, serversClosed, serversLock,
                 subscriptionsClosed, subLock, chans, upd, caller, poll, client, evlog,
                 monitored, nUpdates, nConnects, nPolls, lim, exec>>

\* selectServerFromSubscription, case <-ctx.Done().
SelectCtxDone(q) ==
  /\ sel[q].pc = "wait"
  /\ sel[q].ctxDone
  /\ sel' = [sel EXCEPT ![q] = Return(sel[q], "CtxErr")]
  /\ UNCHANGED <<cfg, topoVars, caller, client, nUpdates, nConnects, nPolls, lim, exec>>

\* The timeout case taken whether or not the timer has fired.
SelectTimeoutEarly(q) ==
  /\ sel[q].pc = "wait"
  /\ sel' = [sel EXCEPT ![q] = Return(sel[q], "ErrServerSelectionTimeout")]
  /\ UNCHANGED <<cfg, topoVars, caller, client, nUpdates, nConnects, nPolls, lim, exec>>

\* selectServerFromSubscription, case <-selectionState.timeoutChan.
SelectTimeout(q) ==
  /\ sel[q].pc = "wait"
  /\ sel[q].timer = "fired"
  /\ sel' = [sel EXCEPT ![q] = Return(sel[q], "ErrServerSelectionTimeout")]
  /\ UNCHANGED <<cfg, topoVars, caller, client, nUpdates, nConnects, nPolls, lim, exec>>

\* selectServerFromSubscription, case current = <-subscriptionCh: a buffered
\* description, or the zero description of a closed channel; then
\* selectServerFromDescription(current).
SelectReceive(q, ans, pick) ==
  /\ sel[q].pc = "wait"
  /\ chans[q].buf # <<>> \/ chans[q].closed
  /\ LET current == IF chans[q].buf # <<>> THEN chans[q].buf[1] ELSE EmptyTopology
     IN sel' = [sel EXCEPT ![q] = Evaluated(sel[q], current, ans, pick, "check")]
  /\ chans' = [chans EXCEPT ![q].buf = <<>>]
  /\ UNCHANGED <<cfg, connectionstate, desc, fsm, servers, serversClosed, serversLock,
                 subscribers, currentSubscriberID, subscriptionsClosed, subLock, upd,
                 caller, poll, client, evlog, monitored, nUpdates, nConnects, nPolls, lim, exec>>

\* RequestImmediateCheck: a no-op unless connected, else under serversLock a
\* request to every monitor.
SelectRequestImmediateCheck(q) ==
  /\ sel[q].pc = "check"
  /\ connectionstate # "connected" \/ serversLock = "free"
  /\ sel' = [sel EXCEPT ![q].pc = "wait"]
  /\ UNCHANGED <<cfg, topoVars, caller, client, nUpdates, nConnects, nPolls, lim, exec>>

\* FindServer: the check of the connection state.
SelectFind(q) ==
  /\ sel[q].pc = "find"
  /\ sel' = [sel EXCEPT ![q] =
       IF connectionstate # "connected" THEN Return(sel[q], "ErrTopologyClosed")
       ELSE [sel[q] EXCEPT !.pc = "lookup"]]
  /\ UNCHANGED <<cfg, topoVars, caller, client, nUpdates, nConnects, nPolls, lim, exec>>

\* A lookup that hands out a handle for any description.
FindServerStale(selected) == "hit"

\* FindServer under serversLock: the handle of the description's address in
\* t.servers, or nil, nil.
FindServer(selected) == IF selected.Addr \in DOMAIN servers THEN "hit" ELSE "miss"

\* SelectServer after FindServer: return the handle, or loop when there is
\* none.
SelectLookup(q) ==
  /\ sel[q].pc = "lookup"
  /\ serversLock = "free"
  /\ sel' = [sel EXCEPT ![q] =
       IF FindServer(sel[q].selected) = "hit"
       THEN Return([sel[q] EXCEPT !.found = "hit"], "ok")
       ELSE [sel[q] EXCEPT !.found = "miss",
               !.pc = IF sel[q].sub = -1 THEN "subscribe" ELSE "wait"]]
  /\ UNCHANGED <<cfg, topoVars, caller, client, nUpdates, nConnects, nPolls, lim, exec>>

\* SelectServer returns: the deferred Unsubscribe(sub).
SelectUnsubscribe(q) ==
  /\ sel[q].pc = "unsub"
  /\ subLock = "free"
  /\ UnsubscribeLocked(sel[q].sub)
  /\ sel' = [sel EXCEPT ![q].pc = "done"]
  /\ UNCHANGED <<cfg, connectionstate, desc, fsm, servers, serversClosed, serversLock,
                 currentSubscriberID, subscriptionsClosed, subLock, upd, caller, poll,
                 client, evlog, monitored, nUpdates, nConnects, nPolls, lim, exec>>

InProgress(q) == sel[q].pc \notin {"idle", "done"}

\* The selection timer fires.
TimerFire(q) ==
  /\ InProgress(q)
  /\ sel[q].timer = "running"
  /\ sel' = [sel EXCEPT ![q].timer = "fired"]
  /\ UNCHANGED <<cfg, topoVars, caller, client, nUpdates, nConnects, nPolls, lim, exec>>

\* The caller's context is cancelled or its deadline passes.
CtxCancel(q) ==
  /\ InProgress(q)
  /\ ~sel[q].ctxDone
  /\ sel' = [sel EXCEPT ![q].ctxDone = TRUE]
  /\ UNCHANGED <<cfg, topoVars, caller, client, nUpdates, nConnects, nPolls, lim, exec>>

\* ------------------------------------------------------ operation executor

\* The documents of a bulk insert, the server's maxWriteBatchSize.
MaxDocs == 3
MaxBatch == 2

\* The servers a selection predicate may return, their average round-trip
\* times and the values of localThreshold, in milliseconds.
ExecAddrs == {"a", "b", "c"}
RTTs == {10, 20, 30}
LocalThresholds == {0, 15}
Candidates == UNION {[S -> RTTs] : S \in SUBSET ExecAddrs}

\* The latency window that keeps every candidate.
LatencyWindowAll(rtt, threshold) == DOMAIN rtt

\* The latency window: the candidates whose average RTT is within the
\* minimum average RTT plus localThreshold.
LatencyWindow(rtt, threshold) ==
  IF DOMAIN rtt = {} THEN {}
  ELSE LET m == CHOOSE x \in DOMAIN rtt : \A y \in DOMAIN rtt : rtt[x] <= rtt[y]
       IN {c \in DOMAIN rtt : rtt[c] <= rtt[m] + threshold}

\* An attempt limit that allows a second retry.
MaxAttemptsTwoRetries(retryable) == 3

\* The attempts of one command: at most 2 if retryable, else 1.
MaxAttempts(retryable) == IF retryable THEN 2 ELSE 1

\* The documents of the command that starts at document next: as many as
\* fit in a batch.
NextBatch(next, size, n) ==
  [i \in 1..(IF n - next + 1 < size THEN n - next + 1 ELSE size) |-> next + i - 1]

\* A bulk write that goes on after a per-document failure whatever its order.
AbortsNever(ordered) == FALSE

\* Whether a per-document failure makes the executor drop the remaining
\* batches.
AbortsOnWriteError(ordered) == ordered

\* The largest int32.
MaxInt32 == 2147483647

\* The reply handler that keeps only the count of the last reply.
processResponseOverwrite(op, N, n) == n

\* processResponse: Insert adds the reply's n to its result in int32
\* arithmetic, Count, Distinct, CreateIndexes and DropIndexes replace their
\* result by the one built from the reply.
processResponse(op, N, n) ==
  IF op = "Insert"
  THEN IF N > 0 /\ n > MaxInt32 - N
       THEN ((N - MaxInt32) - 1) + ((n - MaxInt32) - 1)
       ELSE IF N < 0 /\ n < (-MaxInt32 - 1) - N
            THEN ((N + MaxInt32) + 1) + ((n + MaxInt32) + 1)
            ELSE N + n
  ELSE n

\* An Execute that hands the documents to the executor whether or not a
\* deployment is set.
InsertExecuteUnchecked(n, size, ordered, retry, deployment) ==
  /\ exec.pc \in {"idle", "done"}
  /\ exec.op \in {"none", "Insert"}
  /\ exec.runs < lim.runs
  /\ exec' = [NoExec EXCEPT !.mongo = exec.mongo, !.pc = "select", !.op = "Insert", !.runs = exec.runs + 1,
                            !.deployment = deployment,
                            !.N = exec.N, !.N0 = exec.N,
                            !.n = n, !.size = size,
                            !.ordered = ordered, !.retryable = retry]
  /\ UNCHANGED <<cfg, topoVars, caller, client, sel, nUpdates, nConnects, nPolls, lim>>

\* Insert.Execute: refuses to run without a deployment, else hands the
\* documents as batches to the executor.
InsertExecute(n, size, ordered, retry, deployment) ==
  /\ exec.pc \in {"idle", "done"}
  /\ exec.op \in {"none", "Insert"}
  /\ exec.runs < lim.runs
  /\ exec' = IF ~deployment
             THEN [NoExec EXCEPT !.mongo = exec.mongo, !.pc = "done", !.op = "Insert", !.runs = exec.runs + 1,
                                 !.N = exec.N, !.N0 = exec.N,
                                 !.result = "ErrNoDeployment"]
             ELSE [NoExec EXCEPT !.mongo = exec.mongo, !.pc = "select", !.op = "Insert", !.runs = exec.runs + 1,
                                 !.deployment = TRUE,
                                 !.N = exec.N, !.N0 = exec.N,
                                 !.n = n, !.size = size,
                                 !.ordered = ordered, !.retryable = retry]
  /\ UNCHANGED <<cfg, topoVars, caller, client, sel, nUpdates, nConnects, nPolls, lim>>

\* Count.Execute, Distinct.Execute, CreateIndexes.Execute and
\* DropIndexes.Execute: refuse to run without a deployment, else hand one
\* command to the executor.
OperationExecute(op, retry, deployment) ==
  /\ exec.pc \in {"idle", "done"}
  /\ op \in {"Count", "Distinct", "CreateIndexes", "DropIndexes"}
  /\ exec.op \in {"none", op}
  /\ exec.runs < lim.runs
  /\ exec' = IF ~deployment
             THEN [NoExec EXCEPT !.mongo = exec.mongo, !.pc = "done", !.op = op, !.runs = exec.runs + 1,
                                 !.N = exec.N, !.N0 = exec.N,
                                 !.result = "ErrNoDeployment"]
             ELSE [NoExec EXCEPT !.mongo = exec.mongo, !.pc = "select", !.op = op, !.runs = exec.runs + 1,
                                 !.deployment = TRUE,
                                 !.N = exec.N, !.N0 = exec.N,
                                 !.n = 1, !.size = 1, !.retryable = retry]
  /\ UNCHANGED <<cfg, topoVars, caller, client, sel, nUpdates, nConnects, nPolls, lim>>

\* Executor loop, server selection: the predicate's candidates go through
\* the latency window and one of the survivors is picked at random; with no
\* survivor the selection ends in a timeout.
ExecSelectServer(rtt, threshold, pick) ==
  /\ exec.pc = "select"
  /\ LET window == LatencyWindow(rtt, threshold)
     IN IF window = {}
        THEN /\ pick = "a"
             /\ exec' = [exec EXCEPT !.pc = "done", !.rtt = rtt, !.threshold = threshold,
                                     !.window = window, !.selected = "",
                                     !.result = "ServerSelectionTimeout"]
        ELSE /\ pick \in window
             /\ exec' = [exec EXCEPT !.pc = "send", !.rtt = rtt, !.threshold = threshold,
                                     !.window = window, !.selected = pick]
  /\ UNCHANGED <<cfg, topoVars, caller, client, sel, nUpdates, nConnects, nPolls, lim>>

\* Executor loop, one wire attempt of the current command and what the
\* reply makes of it: success, a retryable error, any other error, or a
\* write error for document k of the batch. A reply that reaches the
\* operation carries the count n and goes through processResponse.
ExecRoundTrip(outcome, k, n) ==
  /\ exec.pc = "send"
  /\ LET batch == NextBatch(exec.next, exec.size, exec.n)
         docs == {batch[i] : i \in 1..Len(batch)}
         last == batch[Len(batch)]
         attempts == IF exec.fresh THEN 1 ELSE exec.attempts + 1
         kept(j) == SelectSeq(batch, LAMBDA d : IF exec.ordered THEN d < j ELSE d # j)
         replied == outcome \in {"ok", "writeError"}
         e == [exec EXCEPT !.attempts = attempts, !.sent = @ + 1,
                           !.N = IF replied THEN processResponse(exec.op, @, n) ELSE @,
                           !.replies = IF replied THEN Append(@, n) ELSE @,
                           !.cmds = IF exec.fresh THEN @ + 1 ELSE @,
                           !.rtt = <<>>, !.threshold = 0, !.window = {},
                           !.selected = ""]
         advance(x) == IF last = exec.n
                       THEN [x EXCEPT !.pc = "done", !.next = last + 1, !.fresh = TRUE,
                                      !.result = IF x.failed = {} THEN "ok"
                                                 ELSE "WriteErrors"]
                       ELSE [x EXCEPT !.pc = "select", !.next = last + 1, !.fresh = TRUE]
     IN CASE outcome = "ok" ->
               /\ k = 0
               /\ n \in {Len(batch), MaxInt32}
               /\ exec' = advance([e EXCEPT !.delivered = @ \o batch])
          [] outcome = "writeError" ->
               /\ k \in docs
               /\ n \in {Len(kept(k)), MaxInt32}
               /\ exec' =
                    IF AbortsOnWriteError(exec.ordered)
                    THEN [e EXCEPT !.pc = "done", !.fresh = TRUE,
                                   !.failed = @ \cup {k},
                                   !.delivered =
                                     @ \o SelectSeq(batch, LAMBDA d :
                                            IF exec.ordered THEN d < k ELSE d # k),
                                   !.result = "WriteErrors"]
                    ELSE advance([e EXCEPT !.failed = @ \cup {k},
                                           !.delivered =
                                             @ \o SelectSeq(batch, LAMBDA d :
                                                    IF exec.ordered THEN d < k
                                                    ELSE d # k)])
          [] outcome = "retryable" ->
               /\ k = 0 /\ n = 0
               /\ exec' = IF attempts < MaxAttempts(exec.retryable)
                          THEN [e EXCEPT !.pc = "select", !.fresh = FALSE]
                          ELSE [e EXCEPT !.pc = "done", !.fresh = FALSE,
                                         !.result = "error"]
          [] outcome = "fatal" ->
               /\ k = 0 /\ n = 0
               /\ exec' = [e EXCEPT !.pc = "done", !.fresh = FALSE, !.result = "error"]
  /\ UNCHANGED <<cfg, topoVars, caller, client, sel, nUpdates, nConnects, nPolls, lim>>

\* Client.Connect: connects the deployment and subscribes to it, which
\* succeeds (ok) or not, and on success makes the session pool. The
\* deployment refuses to connect twice.
ClientConnect(ok) ==
  /\ exec.mongo.state = "connected" => ~ok
  /\ exec' = IF ok
             THEN [exec EXCEPT !.mongo.state = "connected", !.mongo.sessionPool = TRUE]
             ELSE exec
  /\ UNCHANGED <<cfg, topoVars, caller, client, sel, nUpdates, nConnects, nPolls, lim>>

\* Client.Disconnect: ends the sessions and disconnects the deployment; the
\* session pool stays in place.
ClientDisconnect ==
  /\ exec' = IF exec.mongo.state = "connected"
             THEN [exec EXCEPT !.mongo.state = "disconnected"]
             ELSE exec
  /\ UNCHANGED <<cfg, topoVars, caller, client, sel, nUpdates, nConnects, nPolls, lim>>

\* Client.StartSession: fails on a client without a session pool, else
\* makes a session from the pool.
StartSession ==
  /\ exec' = IF ~exec.mongo.sessionPool
             THEN [exec EXCEPT !.mongo.session = "ErrClientDisconnected"]
             ELSE [exec EXCEPT !.mongo.session = "session"]
  /\ UNCHANGED <<cfg, topoVars, caller, client, sel, nUpdates, nConnects, nPolls, lim>>

\* ------------------------------------------------------------ specification

\* The steps of Connect and Disconnect called by the goroutines of L.
Lifecycle(L) ==
  \E l \in L :
    \/ CallConnect(l) \/ ConnectCAS(l) \/ ConnectStore(l) \/ ConnectServers(l)
    \/ ConnectPost(l) \/ ConnectFin(l)
    \/ CallDisconnect(l) \/ DisconnectCAS(l) \/ DisconnectServers(l)
    \/ DisconnectSubscribers(l) \/ DisconnectStore(l) \/ DisconnectFin(l)

\* The monitors deliver descriptions of the set In; the update in progress
\* publishes to the subscribers.
Updates(In) ==
  \/ \E s \in In : ApplyUpdate(s)
  \/ PublishLock
  \/ \E id \in DOMAIN subscribers : PublishDrain(id)
  \/ PublishSend
  \/ PublishUnlock

Polling ==
  \/ \E hosts \in DNSResults : PollTick(hosts)
  \/ SrvProcess
  \/ \E l \in Callers : DisconnectPolling(l)

Subscriptions(C) ==
  \E c \in C :
    \/ ClientSubscribe(c) \/ ClientSubscribeLoad(c) \/ ClientSubscribeRegister(c)
    \/ ClientRead(c) \/ ClientUnsubscribe(c)

\* Spec: one goroutine connects and disconnects the topology while monitors
\* and the SRV polling task update it and two goroutines subscribe, read and
\* unsubscribe.
ConfigsPubSub ==
  { Config(<<"a">>, "", "Automatic", FALSE, TRUE, 0, 0),
    Config(<<"a", "b">>, "", "Automatic", FALSE, FALSE, 0, 0) }

IncomingPubSub == {Mongos(x) : x \in Addrs} \cup {Standalone(x) : x \in Addrs}

Init == InitWith(ConfigsPubSub, Limits(MaxUpdates, MaxConnects, MaxPolls))

Next ==
  \/ Lifecycle({"l1"})
  \/ Updates(IncomingPubSub)
  \/ Polling
  \/ Subscriptions(Clients)

Spec == Init /\ [][Next]_vars

\* The steps of a SelectServer call that take no branch of its select.
SelectSteps(q) ==
  \/ SelectStart(q)
  \/ \E ans \in SelectorAnswers, pick \in Addrs : SelectFirst(q, ans, pick)
  \/ SelectSubscribe(q) \/ SelectSubscribeLoad(q) \/ SelectSubscribeRegister(q)
  \/ SelectRequestImmediateCheck(q)
  \/ SelectFind(q) \/ SelectLookup(q) \/ SelectUnsubscribe(q)

SelectBranches(q) ==
  \/ \E ans \in SelectorAnswers, pick \in Addrs : SelectReceive(q, ans, pick)
  \/ SelectTimeout(q)
  \/ SelectCtxDone(q)

\* SpecSelect: one goroutine connects and disconnects the topology, monitors
\* update it, and one goroutine calls SelectServer.
SelMaxUpdates == 2
SelMaxConnects == 1

ConfigsSelect ==
  { Config(<<"a", "b">>, "", "Automatic", FALSE, FALSE, 0, 1),
    Config(<<"a">>, "", "Automatic", FALSE, FALSE, 0, 0),
    Config(<<"a">>, "", "Automatic", TRUE, FALSE, 0, 1) }

IncomingSelect == {Mongos(x) : x \in Addrs} \cup {Standalone("a"), OldWire("b")}

InitSelect == InitWith(ConfigsSelect, Limits(SelMaxUpdates, SelMaxConnects, 0))

PublishSteps ==
  \/ PublishLock
  \/ \E id \in DOMAIN subscribers : PublishDrain(id)
  \/ PublishSend
  \/ PublishUnlock

NextSelect ==
  \/ Lifecycle({"l1"})
  \/ \E s \in IncomingSelect : ApplyUpdate(s)
  \/ PublishSteps
  \/ \E q \in Selectors : SelectSteps(q) \/ SelectBranches(q)
  \/ \E q \in Selectors : TimerFire(q) \/ CtxCancel(q)

SpecSelect == InitSelect /\ [][NextSelect]_vars

\* SpecSelectFair: SpecSelect under the scheduling the runtime provides: a
\* goroutine that can run does run, a mutex is eventually handed to a
\* goroutine waiting for it, select picks at random among the ready cases
\* (so a ready timeout case is eventually taken), a started timer fires.
FairSelect ==
  /\ WF_vars(PublishSteps)
  /\ \A q \in Selectors :
       /\ SF_vars(SelectSteps(q))
       /\ SF_vars(SelectTimeout(q))
       /\ WF_vars(TimerFire(q))

SpecSelectFair == SpecSelect /\ FairSelect

\* SpecLifecycle: two goroutines call Connect and Disconnect concurrently
\* while monitors and the SRV polling task update the topology and one
\* goroutine subscribes.
LifeMaxUpdates == 1
LifeMaxConnects == 2
LifeMaxPolls == 1

ConfigsLifecycle ==
  { Config(<<"a">>, "", "Automatic", FALSE, TRUE, 0, 0),
    Config(<<"a", "b">>, "", "Automatic", FALSE, FALSE, 0, 0),
    Config(<<"a">>, "", "Automatic", TRUE, FALSE, 0, 0) }

IncomingLifecycle == {Mongos("a"), Standalone("b")}

InitLifecycle ==
  InitWith(ConfigsLifecycle, Limits(LifeMaxUpdates, LifeMaxConnects, LifeMaxPolls))

NextLifecycle ==
  \/ Lifecycle(Callers)
  \/ Updates(IncomingLifecycle)
  \/ Polling
  \/ Subscriptions({"s1"})

SpecLifecycle == InitLifecycle /\ [][NextLifecycle]_vars

\* SpecVersions: one goroutine connects and disconnects a single-seed
\* topology while the monitor of "a" delivers descriptions that carry
\* topology versions of two server processes, and one goroutine subscribes;
\* the argument and the return value of every apply call are recorded.
VerMaxUpdates == 3
VerMaxConnects == 1

Versioned(s, pid, ctr) == [s EXCEPT !.TV = [pid |-> pid, ctr |-> ctr]]

ConfigsVersions == { Config(<<"a">>, "", "Automatic", FALSE, FALSE, 0, 0) }

IncomingVersions ==
  { Versioned(Mongos("a"), "p1", 1), Versioned(Mongos("a"), "p1", 2),
    Versioned(Mongos("a"), "p2", 1), Mongos("a") }

InitVersions ==
  InitWith(ConfigsVersions,
           [Limits(VerMaxUpdates, VerMaxConnects, 0) EXCEPT !.record = TRUE])

NextVersions ==
  \/ Lifecycle({"l1"})
  \/ Updates(IncomingVersions)
  \/ Subscriptions({"s1"})

SpecVersions == InitVersions /\ [][NextVersions]_vars

\* SpecSrv: one goroutine connects and disconnects a topology built from an
\* SRV URI while the polling task resolves the hosts, a monitor delivers a
\* description and one goroutine subscribes.
SrvMaxUpdates == 1
SrvMaxConnects == 1
SrvMaxPolls == 2

ConfigsSrv ==
  { Config(<<"a", "b">>, "", "Automatic", FALSE, TRUE, 3, 0),
    Config(<<"a">>, "", "Automatic", FALSE, TRUE, 0, 0),
    Config(<<"a">>, "", "Single", FALSE, TRUE, 0, 0) }

DNSResultsSrv == {<<>>, <<"a", "b", "c", "d">>, <<"b">>}

IncomingSrv == {Mongos("a"), Secondary("a")}

InitSrv == InitWith(ConfigsSrv, Limits(SrvMaxUpdates, SrvMaxConnects, SrvMaxPolls))

NextSrv ==
  \/ Lifecycle({"l1"})
  \/ Updates(IncomingSrv)
  \/ \E hosts \in DNSResultsSrv : PollTick(hosts)
  \/ SrvProcess
  \/ DisconnectPolling("l1")
  \/ Subscriptions({"s1"})

SpecSrv == InitSrv /\ [][NextSrv]_vars

\* SpecSrvFair: the behaviours of SpecSrv with a single poll, under the
\* scheduler's fairness: a Disconnect call that can take its next step takes
\* it, the polling goroutine processes the hosts it resolved, and the update
\* in progress goes on publishing.
SrvFairMaxPolls == 1

SpecSrvFair ==
  /\ InitWith(ConfigsSrv, Limits(SrvMaxUpdates, SrvMaxConnects, SrvFairMaxPolls))
  /\ [][NextSrv]_vars
  /\ WF_vars(\/ DisconnectCAS("l1") \/ DisconnectServers("l1")
             \/ DisconnectSubscribers("l1") \/ DisconnectPolling("l1")
             \/ DisconnectStore("l1") \/ DisconnectFin("l1"))
  /\ WF_vars(SrvProcess)
  /\ WF_vars(PublishSteps)

\* SpecReplicaSet: one goroutine connects and disconnects a topology seeded
\* with "a", or with two spellings of "a", while the monitors of a replica set deliver descriptions that
\* name the hosts a, b and c, and one goroutine subscribes; the argument and
\* the return value of every apply call are recorded.
RsMaxUpdates == 2
RsMaxConnects == 1

RsHosts == {"a", "b", "c"}

\* A replica-set member's description with its host list, setVersion and
\* electionId.
Member(s, hosts, setVersion, electionID) ==
  [s EXCEPT !.Hosts = hosts, !.SetVersion = setVersion, !.ElectionID = electionID]

ConfigsReplicaSet ==
  { Config(<<"a">>, "", "Automatic", FALSE, FALSE, 0, 0),
    Config(<<"a">>, "rs0", "Automatic", FALSE, FALSE, 0, 0),
    Config(<<"a">>, "rs0", "Single", FALSE, FALSE, 0, 0),
    Config(<<"a", "A">>, "", "Automatic", FALSE, FALSE, 0, 0) }

IncomingReplicaSet ==
  { Member(Primary("a"), RsHosts, 2, 2), Member(Primary("b"), RsHosts, 1, 3),
    Member(Primary("b"), RsHosts, 2, 1), Member(Secondary("b"), RsHosts, 0, 0),
    [Primary("a") EXCEPT !.SetName = "rs1"] }

InitReplicaSet ==
  InitWith(ConfigsReplicaSet,
           [Limits(RsMaxUpdates, RsMaxConnects, 0) EXCEPT !.record = TRUE])

NextReplicaSet ==
  \/ Lifecycle({"l1"})
  \/ Updates(IncomingReplicaSet)
  \/ Subscriptions({"s1"})

SpecReplicaSet == InitReplicaSet /\ [][NextReplicaSet]_vars

\* SpecExecutor: one bulk insert runs through the executor against a
\* topology that is left alone.
ConfigsExecutor == { Config(<<"a", "b">>, "", "Automatic", FALSE, FALSE, 0, 0) }

InitExecutor == InitWith(ConfigsExecutor, Limits(0, 0, 0))

NextExecutor ==
  \/ \E n \in 1..MaxDocs, size \in 1..MaxBatch, ordered, retry, deployment \in BOOLEAN :
       InsertExecute(n, size, ordered, retry, deployment)
  \/ \E rtt \in Candidates, threshold \in LocalThresholds, pick \in ExecAddrs :
       ExecSelectServer(rtt, threshold, pick)
  \/ \E op \in {"Count", "Distinct", "CreateIndexes", "DropIndexes"},
          retry, deployment \in BOOLEAN :
       OperationExecute(op, retry, deployment)
  \/ \E outcome \in {"ok", "writeError", "retryable", "fatal"}, k \in 0..MaxDocs,
          n \in 0..MaxDocs :
       ExecRoundTrip(outcome, k, n)

SpecExecutor == InitExecutor /\ [][NextExecutor]_vars

\* SpecResult: a client is connected and disconnected and starts sessions
\* while an operation value is executed up to ResMaxRuns times, with or
\* without a deployment, against one server whose replies may carry any
\* count.
ResMaxRuns == 2

InitResult == InitWith(ConfigsExecutor, [Limits(0, 0, 0) EXCEPT !.runs = ResMaxRuns])

NextResult ==
  \/ \E n \in 1..MaxDocs, size \in 1..MaxBatch, ordered, retry, deployment \in BOOLEAN :
       InsertExecute(n, size, ordered, retry, deployment)
  \/ \E op \in {"Count", "Distinct", "CreateIndexes", "DropIndexes"},
          retry, deployment \in BOOLEAN :
       OperationExecute(op, retry, deployment)
  \/ ExecSelectServer([x \in {"a"} |-> 10], 0, "a")
  \/ \E ok \in BOOLEAN : ClientConnect(ok)
  \/ ClientDisconnect
  \/ StartSession
  \/ \E outcome \in {"ok", "writeError", "retryable", "fatal"}, k \in 0..MaxDocs,
          n \in 0..MaxDocs \cup {MaxInt32} :
       ExecRoundTrip(outcome, k, n)

SpecResult == InitResult /\ [][NextResult]_vars

\* ------------------------------------------------------------------ claims

\* No Connect or Disconnect call and no monitor or SRV update is in progress.
Quiescent ==
  /\ upd.kind = "none"
  /\ \A l \in Callers : caller[l].pc = "idle"

\* C1: publishing never blocks and never sends on a closed channel: whenever
\* the update in progress is about to write its description into a
\* subscriber's channel, that channel is open and its buffer is empty,
\* whatever the subscribers did in the meantime.
C1_PublishNeverBlocks ==
  /\ upd.stage = "loop" => upd.pending \subseteq DOMAIN subscribers
  /\ upd.at # -1 => /\ upd.at \in DOMAIN subscribers
                    /\ CanSend(chans[subscribers[upd.at]])

\* C1 witness: an SRV update has replaced the description buffered in the
\* channel of a subscriber that never read.
C1_Witness ==
  \E c \in Clients :
    /\ upd.kind = "srv" /\ upd.stage = "loop" /\ upd.at = -1
    /\ client[c].pc = "subscribed" /\ client[c].obs = <<>>
    /\ client[c].id \notin upd.pending
    /\ chans[c].buf = <<upd.current>>
    /\ upd.current # EmptyTopology

\* C2: in every quiescent state, a description buffered in the channel of a
\* registered subscriber is the current snapshot.
C2_BufferedIsLatest ==
  Quiescent =>
    \A id \in DOMAIN subscribers :
      chans[subscribers[id]].buf # <<>> => chans[subscribers[id]].buf[1] = desc

\* C3: a subscriber that kept reading until the topology closed its channel
\* has observed the last description stored before the close (after the
\* close no later description can reach it).
C3_TerminalObserved ==
  \A c \in Clients :
    (/\ client[c].pc = "subscribed"
     /\ chans[c].closed
     /\ chans[c].buf = <<>>
     /\ client[c].obs # <<>>)
    => client[c].obs[1] = chans[c].term

\* C4 as stated: a call that found no candidate in its first pass ends only
\* with a server, with the selection timeout or with the context's error.
C4_EndsOnlyThreeWays ==
  \A q \in Selectors :
    (sel[q].pc = "done" /\ sel[q].looped)
      => sel[q].result \in {"ok", "ErrServerSelectionTimeout", "CtxErr"}

\* C4, amended: a call that found no candidate in its first pass subscribes;
\* it ends with a server taken from a description that had candidates and
\* found in the monitor map, with the selection timeout once the timer has
\* fired, with the context's error once the context is done, with the
\* compatibility error of a description or the selector's error, or with a
\* connection-state error of Subscribe or FindServer. With a positive
\* serverSelectionTimeout every call eventually returns.
C4_SelectServerEnds ==
  /\ [](\A q \in Selectors :
          (sel[q].pc = "done" /\ sel[q].looped) =>
            /\ sel[q].result \in {"ok", "ErrServerSelectionTimeout", "CtxErr",
                                   "CompatibilityErr", "SelectorErr", "ErrTopologyClosed",
                                   "ErrNotConnected", "ErrSubscribeAfterClosed"}
            /\ sel[q].result \notin {"ErrNotConnected", "ErrSubscribeAfterClosed"}
                 => sel[q].sub # -1
            /\ sel[q].result = "ok"
                 => sel[q].selected \in sel[q].suitable /\ sel[q].found = "hit"
            /\ sel[q].result = "ErrServerSelectionTimeout" => sel[q].timer = "fired"
            /\ sel[q].result = "CtxErr" => sel[q].ctxDone
            /\ sel[q].result = "CompatibilityErr" => sel[q].examined.CompatibilityErr
            /\ sel[q].result = "SelectorErr" => sel[q].consulted
            /\ sel[q].result \in {"ErrTopologyClosed", "ErrNotConnected",
                                   "ErrSubscribeAfterClosed"}
                 => (connectionstate # "connected" \/ subscriptionsClosed \/ nConnects > 1))
  /\ \A q \in Selectors :
       (InProgress(q) /\ cfg.serverSelectionTimeout > 0) ~> (sel[q].pc = "done")

\* C4 witness: a call that found no candidate in its first pass has returned
\* a server selected from a description it received from its subscription.
C4_Witness ==
  \E q \in Selectors :
    /\ sel[q].pc = "done" /\ sel[q].looped /\ sel[q].sub # -1
    /\ sel[q].result = "ok"
    /\ cfg.serverSelectionTimeout > 0

\* C5: when the description SelectServer examines carries a compatibility
\* error, the call fails with that error in the same step: the selector is
\* not invoked and the call does not wait for another description.
C5_CompatibilityErrorFails ==
  \A q \in Selectors :
    sel[q].examined.CompatibilityErr =>
      /\ ~sel[q].consulted
      /\ sel[q].result = "CompatibilityErr"
      /\ sel[q].pc \in {"unsub", "done"}

\* C5 witness: a description received from the subscription carried the
\* compatibility error and the call has returned it.
C5_Witness ==
  \E q \in Selectors :
    /\ sel[q].examined.CompatibilityErr
    /\ sel[q].looped /\ sel[q].sub # -1
    /\ sel[q].pc = "done" /\ sel[q].result = "CompatibilityErr"

\* C6: outside load-balanced mode every server offered to the selector is a
\* server of the examined description whose kind is not Unknown; and when the
\* selector answers with servers it was offered, the server the call returns
\* is not Unknown in that description.
C6_OfferedNotUnknown ==
  \A q \in Selectors :
    sel[q].examined.Kind # "LoadBalanced" =>
      /\ \A s \in sel[q].offered :
           s.Kind # "Unknown" /\ s \in ServerSet(sel[q].examined)
      /\ (sel[q].result = "ok" /\ sel[q].suitable \subseteq sel[q].offered) =>
           /\ sel[q].selected.Kind # "Unknown"
           /\ sel[q].selected \in ServerSet(sel[q].examined)

\* C6 witness: the call returned a server of a description that also had an
\* Unknown server, which the selector was not offered.
C6_Witness ==
  \E q \in Selectors :
    /\ sel[q].pc = "done" /\ sel[q].result = "ok" /\ sel[q].consulted
    /\ sel[q].suitable \subseteq sel[q].offered
    /\ \E s \in ServerSet(sel[q].examined) : s.Kind = "Unknown" /\ s \notin sel[q].offered

\* C7: when the examined description is LoadBalanced, the selector is not
\* consulted and the suitable servers are the description's single
\* load-balancer server, which is the server a successful call returns; the
\* call never fails with the selector's error.
C7_LoadBalancedBypassesSelector ==
  \A q \in Selectors :
    sel[q].examined.Kind = "LoadBalanced" =>
      /\ ~sel[q].consulted
      /\ sel[q].suitable = ServerSet(sel[q].examined)
      /\ Cardinality(sel[q].suitable) = 1
      /\ \A s \in sel[q].suitable : s.Kind = "LoadBalancer"
      /\ sel[q].result # "SelectorErr"
      /\ sel[q].result = "ok" => sel[q].selected \in sel[q].suitable

\* C7 witness: a call in a LoadBalanced topology has returned the
\* load-balancer server.
C7_Witness ==
  \E q \in Selectors :
    /\ sel[q].examined.Kind = "LoadBalanced"
    /\ sel[q].pc = "done" /\ sel[q].result = "ok"
    /\ sel[q].selected.Kind = "LoadBalancer"

\* C8: the step of SelectServer that looks the chosen address up returns a
\* handle exactly when the address is in the monitor map at that moment;
\* otherwise the call does not fail and returns nothing: it goes back to wait
\* for the next description.
C8_HandleOnlyFromMap ==
  [][\A q \in Selectors :
       (sel[q].pc = "lookup" /\ sel'[q].pc # "lookup") =>
         IF sel[q].selected.Addr \in DOMAIN servers
         THEN /\ sel'[q].result = "ok"
              /\ sel'[q].selected = sel[q].selected
              /\ sel'[q].pc \in {"unsub", "done"}
         ELSE /\ sel'[q].result = "none"
              /\ sel'[q].pc \in {"subscribe", "wait"}]_vars

\* C8 witness: the address of a server the selector was offered and chose was
\* removed from the monitor map before the lookup, and the call waits again.
C8_Witness ==
  \E q \in Selectors :
    /\ sel[q].found = "miss"
    /\ sel[q].pc \in {"subscribe", "wait"}
    /\ sel[q].selected \in sel[q].offered
    /\ sel[q].selected.Addr \notin DOMAIN servers
    /\ sel[q].result = "none"

\* C9: the step of a Connect call that finds the topology not Disconnected
\* returns ErrTopologyConnected and leaves the connection state, the
\* snapshot, the FSM, the monitor map, the subscribers and their channels and
\* the polling task as they were, and publishes no event.
C9_ConnectWhileConnected ==
  [][\A l \in Callers :
       (caller[l].pc = "Connect" /\ caller'[l] # caller[l]
          /\ connectionstate # "disconnected") =>
         /\ caller'[l] = [pc |-> "idle", ret |-> "ErrTopologyConnected"]
         /\ UNCHANGED <<connectionstate, desc, fsm, servers, serversClosed,
                        subscribers, subscriptionsClosed, chans, poll, evlog,
                        monitored>>]_vars

\* C9 witness: a Connect call was turned away while the Connect call of
\* another goroutine was in its section under serversLock.
C9_Witness ==
  \E l, m \in Callers :
    /\ l # m
    /\ caller[l] = [pc |-> "idle", ret |-> "ErrTopologyConnected"]
    /\ caller[m].pc = "c_servers"
    /\ connectionstate = "connecting"

\* C10: whenever no Connect call is in progress, the connection state is not
\* Connecting.
C10_ConnectNeverLeavesConnecting ==
  (\A l \in Callers :
     caller[l].pc \notin {"Connect", "c_store", "c_servers", "c_post", "c_fin"})
    => connectionstate # "connecting"

\* C11: a Disconnect call that finds the topology Disconnected returns no
\* error and changes no state.
C11_DisconnectIdempotent ==
  [][\A l \in Callers :
       (caller[l].pc = "Disconnect" /\ caller'[l] # caller[l]
          /\ connectionstate = "disconnected") =>
         /\ caller'[l] = [pc |-> "idle", ret |-> "ok"]
         /\ UNCHANGED <<connectionstate, desc, fsm, servers, serversClosed,
                        subscribers, subscriptionsClosed, chans, poll, evlog,
                        monitored>>]_vars

\* C12: at most one Disconnect call is shutting the topology down, and one is
\* exactly while the state is Disconnecting; the connection state only moves
\* Disconnected, Connecting, Connected, Disconnecting, Disconnected; the call
\* that shuts down tells every monitor of the map to disconnect in its one
\* pass over the map; and TopologyClosed is published by exactly the steps
\* that take the state from Disconnecting to Disconnected.
C12_OneShutdown ==
  /\ [](LET shutting == {l \in Callers : caller[l].pc \in
                           {"d_servers", "d_subs", "d_poll", "d_store", "d_fin"}}
        IN /\ Cardinality(shutting) <= 1
           /\ (connectionstate = "disconnecting") <=> (shutting # {}))
  /\ [][/\ connectionstate' # connectionstate =>
             <<connectionstate, connectionstate'>> \in
               {<<"disconnected", "connecting">>, <<"connecting", "connected">>,
                <<"connected", "disconnecting">>, <<"disconnecting", "disconnected">>}
        /\ \A l \in Callers :
             (caller[l].pc = "d_servers" /\ caller'[l].pc # "d_servers") =>
               /\ caller'[l].pc = "d_subs"
               /\ DOMAIN servers' = DOMAIN servers
               /\ \A a \in DOMAIN servers : servers'[a] = "stopped"
               /\ {evlog'[i] : i \in 1..Len(evlog')} =
                    {ServerClosed(a) : a \in DOMAIN servers}
        /\ (\E l \in Callers : caller[l].pc = "d_fin" /\ caller'[l].pc # "d_fin")
             <=> (connectionstate = "disconnecting" /\ connectionstate' = "disconnected")
        /\ (connectionstate = "disconnecting" /\ connectionstate' = "disconnected")
             => evlog' = <<TopologyClosed>>
        /\ (evlog' # evlog /\ TopologyClosed \in {evlog'[i] : i \in 1..Len(evlog')})
             => (connectionstate = "disconnecting" /\ connectionstate' = "disconnected")
       ]_vars

\* C12 witness: two Disconnect calls are in progress on a topology that was
\* Connected; one has won and is about to stop the monitors, the other has
\* not yet looked at the state.
C12_Witness ==
  \E l, m \in Callers :
    /\ l # m
    /\ caller[l].pc = "d_servers"
    /\ caller[m].pc = "Disconnect"
    /\ connectionstate = "disconnecting"
    /\ \E a \in DOMAIN servers : servers[a] = "running"

\* C13: from the return of a successful Disconnect until the next Connect
\* (while the state is Disconnected), every monitor of the map has been told
\* to disconnect, every subscriber channel that Subscribe handed out is
\* closed, the subscriber map is empty and Description() returns the empty
\* description, whatever Subscribe, Unsubscribe, monitor updates and SRV
\* updates ran concurrently.
C13_DisconnectedIsShutDown ==
  connectionstate = "disconnected" =>
    /\ \A a \in DOMAIN servers : servers[a] = "stopped"
    /\ \A c \in Clients : client[c].pc \in {"subscribed", "unsubscribed"} => chans[c].closed
    /\ subscribers = << >>
    /\ desc = EmptyTopology
    /\ poll.pc = "off"

\* C13 witness: Disconnect has returned after it closed the channel of a
\* subscriber and stopped a monitor that a monitor update had started.
C13_Witness ==
  /\ connectionstate = "disconnected"
  /\ \E l \in Callers : caller[l] = [pc |-> "idle", ret |-> "ok"]
  /\ evlog = <<TopologyClosed>>
  /\ \E c \in Clients : client[c].pc = "subscribed" /\ chans[c].closed
  /\ \E a \in DOMAIN servers : servers[a] = "stopped"
  /\ nUpdates > 0

\* C14: a Connect call on a topology that has been connected and then
\* disconnected (Disconnected, with the servers marked closed by the earlier
\* Disconnect) returns an error.
C14_ConnectAfterDisconnectFails ==
  [][\A l \in Callers :
       (caller[l].pc = "Connect" /\ caller'[l] # caller[l]
          /\ connectionstate = "disconnected" /\ serversClosed) =>
         /\ caller'[l].pc = "idle"
         /\ caller'[l].ret \notin {"ok", "none"}]_vars

C16_SubscribeNotConnected ==
  /\ []((subscriptionsClosed \/ connectionstate = "disconnected") => subscribers = << >>)
  /\ [][\A c \in Clients :
          /\ (client[c].pc = "idle" /\ client'[c] # client[c]
                /\ connectionstate # "connected") =>
               /\ client'[c].pc = "done"
               /\ client'[c].ret = "ErrNotConnected"
               /\ UNCHANGED <<subscribers, currentSubscriberID, chans>>
          /\ (client[c].pc = "s_reg" /\ client'[c] # client[c] /\ subscriptionsClosed) =>
               /\ client'[c].pc = "done"
               /\ client'[c].ret = "ErrSubscribeAfterClosed"
               /\ UNCHANGED <<subscribers, currentSubscriberID>>
       ]_vars

\* C16 witness: one Subscribe call was turned away while the topology was
\* Disconnecting, and another, which had passed the check before Disconnect
\* began, reached its registration after the subscriptions were closed.
C16_Witness ==
  \E c, c2 \in Clients :
    /\ client[c] = [pc |-> "done", ret |-> "ErrSubscribeAfterClosed", id |-> -1,
                    obs |-> <<>>]
    /\ client[c2] = [pc |-> "done", ret |-> "ErrNotConnected", id |-> -1, obs |-> <<>>]
    /\ connectionstate = "disconnecting"

\* C17: every Unsubscribe call returns no error; a call with a handle that was
\* already unsubscribed, or made after Disconnect closed the subscriptions,
\* changes nothing; a first call closes the handle's channel and deletes its
\* entry; every channel in the subscriber map is open, and no channel has
\* close called on it more than once.
C17_UnsubscribeIdempotent ==
  /\ [](/\ \A x \in DOMAIN chans : chans[x].closes <= 1
        /\ \A x \in DOMAIN chans : chans[x].closed <=> chans[x].closes = 1
        /\ \A id \in DOMAIN subscribers : ~chans[subscribers[id]].closed)
  /\ [][\A c \in Clients :
          (client[c].pc \in {"subscribed", "unsubscribed"} /\ client'[c].pc # client[c].pc) =>
            /\ client'[c].ret = "ok"
            /\ IF client[c].pc = "unsubscribed" \/ subscriptionsClosed
                  \/ client[c].id \notin DOMAIN subscribers
               THEN UNCHANGED <<subscribers, chans, subscriptionsClosed>>
               ELSE /\ ~chans[c].closed /\ chans'[c].closed
                    /\ DOMAIN subscribers' = DOMAIN subscribers \ {client[c].id}
       ]_vars

\* C17 witness: one subscriber has called Unsubscribe twice, and another has
\* called it after Disconnect closed its channel; each channel was closed
\* once.
C17_Witness ==
  \E c, c2 \in Clients :
    /\ client[c].pc = "done" /\ client[c].ret = "ok" /\ client[c].id # -1
    /\ chans[c].closes = 1 /\ chans[c].term = EmptyTopology
    /\ client[c2].pc = "unsubscribed" /\ client[c2].id # -1
    /\ chans[c2].closes = 1 /\ chans[c2].term # EmptyTopology
    /\ subscriptionsClosed

\* C18: for every TopologyDescriptionChanged(prev, curr) event, the snapshot
\* that Description() returns while the event is handled has the kind and
\* the servers of curr (no later description can have been stored at that
\* moment: the publisher holds the topology mutex).
C18_HandlerSeesCurrent ==
  \A i \in 1..Len(evlog) :
    evlog[i].type = "TopologyDescriptionChanged" =>
      /\ evlog[i].snap.Kind = evlog[i].cur.Kind
      /\ evlog[i].snap.Servers = evlog[i].cur.Servers

\* C19: an incoming description whose topologyVersion is strictly older than
\* the stored one for its address (same process, smaller counter) makes
\* apply return the stored description and change nothing: FSM, snapshot,
\* monitor map, events and subscriber channels stay as they are and no
\* publishing starts; with an equal or incomparable version (another
\* process, or a version missing on either side) the description goes
\* through the FSM and the FSM's result is what apply returns.
C19_OlderVersionDiscarded ==
  [][(nUpdates' # nUpdates /\ ~serversClosed
        /\ findServer(fsm.Servers, upd'.arg.Addr) # 0) =>
       LET s == upd'.arg
           stored == fsm.Servers[findServer(fsm.Servers, s.Addr)]
           older == /\ stored.TV # NoTV
                    /\ s.TV # NoTV
                    /\ s.TV.pid = stored.TV.pid
                    /\ s.TV.ctr < stored.TV.ctr
       IN IF older
          THEN /\ upd'.ret = stored
               /\ upd'.kind = upd.kind /\ upd'.stage = upd.stage
               /\ UNCHANGED <<fsm, desc, servers, monitored, evlog, chans,
                              subscribers, serversLock, subLock>>
          ELSE /\ fsm' = fsmApply(fsm, s).topo
               /\ desc' = fsm'
               /\ upd'.ret = fsmApply(fsm, s).desc
               /\ upd'.kind = "apply"
    ]_vars

\* C19 witness: the stored version of "a" is (p1, 2), the last apply call
\* was given (p1, 1) and was handed back the stored description.
C19_Witness ==
  /\ nUpdates >= 2
  /\ upd.arg.TV = [pid |-> "p1", ctr |-> 1]
  /\ upd.ret.TV = [pid |-> "p1", ctr |-> 2]
  /\ findServer(fsm.Servers, "a") # 0
  /\ fsm.Servers[findServer(fsm.Servers, "a")].TV = [pid |-> "p1", ctr |-> 2]

\* C20: whenever the topology mutex is free and the topology is Connected,
\* the addresses of the monitor map are exactly the addresses of the FSM's
\* server list, also after creating a monitor for an added address failed.
C20_MonitorsMatchFsm ==
  (connectionstate = "connected" /\ serversLock = "free") =>
    DOMAIN servers = ServerAddrs(fsm.Servers)

\* C21: processing a successful SRV result with srvMaxHosts = m > 0, with K
\* the monitored addresses still in the result and A the addresses of the
\* result not yet monitored, leaves as the description's addresses K plus
\* exactly min(|A|, max(0, m - |K|)) addresses of A: no address of K is
\* evicted and the size is at most max(m, |K|).
C21_SrvMaxHostsCap ==
  [][(poll.pc = "process" /\ poll'.pc \in {"publishing", "wait"}
        /\ cfg.srvMaxHosts > 0) =>
       LET m == cfg.srvMaxHosts
           R == {poll.hosts[i] : i \in 1..Len(poll.hosts)}
           K == DOMAIN servers \cap R
           A == R \ DOMAIN servers
           room == IF m > Cardinality(K) THEN m - Cardinality(K) ELSE 0
           n == IF Cardinality(A) < room THEN Cardinality(A) ELSE room
           new == ServerAddrs(desc'.Servers)
       IN /\ K \subseteq new
          /\ new \ K \subseteq A
          /\ Cardinality(new \ K) = n
          /\ Cardinality(new) <= (IF m > Cardinality(K) THEN m ELSE Cardinality(K))
    ]_vars

\* C22: a tick of the SRV polling task resolves DNS only if the snapshot kind
\* at that tick is Unknown or Sharded; a tick with any other kind stops the
\* task without resolving, a stopped task stays stopped until Disconnect ends
\* the connected period (no tick, no resolution, no processing of hosts),
\* and with mode=Single no resolution and no processing ever happens.
C22_PollingStopsForGood ==
  [][/\ nPolls' # nPolls =>
          IF desc.Kind \in {"Unknown", "Sharded"}
          THEN poll'.pc \in {"wait", "process"}
          ELSE poll' = [poll EXCEPT !.pc = "stopped"]
     /\ (poll'.pc = "process" /\ poll.pc # "process") =>
          (nPolls' # nPolls /\ desc.Kind \in {"Unknown", "Sharded"})
     /\ poll'.heartbeatTime # poll.heartbeatTime =>
          (poll'.pc = "off" \/ (nPolls' # nPolls /\ desc.Kind \in {"Unknown", "Sharded"}))
     /\ poll.pc = "stopped" =>
          (poll'.pc \in {"stopped", "off"} /\ nPolls' = nPolls)
     /\ cfg.mode = "Single" =>
          (poll'.pc \notin {"process", "publishing"} /\ ~poll'.heartbeatTime)
    ]_vars

\* C22 witness: the task stopped at a tick that found a replica-set kind,
\* the topology is still connected and further ticks are within the bound.
C22_Witness ==
  /\ poll.pc = "stopped"
  /\ desc.Kind = "ReplicaSetNoPrimary"
  /\ connectionstate = "connected"
  /\ ~serversClosed
  /\ nPolls < lim.polls

\* C23: processing a successful SRV result leaves no address missing from
\* the resolved list in the topology description or in the monitor map, a
\* ServerClosed event is published for every monitor it shut down, every
\* monitored address of the resolved list stays monitored and described, and
\* with srvMaxHosts = 0 the description's addresses are the resolved set.
C23_SrvRemovals ==
  [][(poll.pc = "process" /\ poll'.pc \in {"publishing", "wait"}) =>
       LET R == {poll.hosts[i] : i \in 1..Len(poll.hosts)}
           new == ServerAddrs(desc'.Servers)
           gone == DOMAIN servers \ DOMAIN servers'
       IN /\ new \subseteq R
          /\ DOMAIN servers' \subseteq R
          /\ poll'.pc = "publishing" =>
               \A x \in gone : \E i \in 1..Len(evlog') : evlog'[i] = ServerClosed(x)
          /\ (DOMAIN servers \cap R) \subseteq (DOMAIN servers' \cap new)
          /\ cfg.srvMaxHosts = 0 => new = R
    ]_vars

\* C24: the section of Connect under the topology mutex sets the topology
\* kind from the configuration: LoadBalanced if loadBalanced is set, else
\* Single if mode=Single (also with a replicaSetName), else
\* ReplicaSetNoPrimary with the configured set name if replicaSetName is set,
\* else Unknown; outside load-balanced mode the snapshot it stores has that
\* kind and lists every canonicalised seed as an Unknown server.
C24_InitialKindFromConfig ==
  [][\A l \in Callers :
       (caller[l].pc = "c_servers" /\ caller'[l].pc # "c_servers") =>
         LET kind == IF cfg.loadBalanced THEN "LoadBalanced"
                     ELSE IF cfg.mode = "Single" THEN "Single"
                     ELSE IF cfg.replicaSetName # "" THEN "ReplicaSetNoPrimary"
                     ELSE "Unknown"
         IN /\ fsm'.Kind = kind
            /\ (kind = "ReplicaSetNoPrimary" \/ cfg.replicaSetName # "") =>
                 fsm'.SetName = cfg.replicaSetName
            /\ ~cfg.loadBalanced =>
                 /\ desc'.Kind = kind
                 /\ \A i \in 1..Len(CanonSeeds) :
                      \E j \in 1..Len(desc'.Servers) :
                        desc'.Servers[j] = NewDefaultServer(CanonSeeds[i])
                 /\ \A j \in 1..Len(desc'.Servers) :
                      desc'.Servers[j].Kind = "Unknown"
    ]_vars

\* C25: a Connect in load-balanced mode that creates its server publishes
\* exactly three events, in this order: TopologyDescriptionChanged from the
\* empty description to LoadBalanced with one Unknown server,
\* ServerDescriptionChanged of that server from Unknown to LoadBalancer,
\* TopologyDescriptionChanged to LoadBalanced with the LoadBalancer server;
\* the snapshot it leaves holds exactly one server, of kind LoadBalancer.
C25_LoadBalancedMockedEvents ==
  [][\A l \in Callers :
       (cfg.loadBalanced /\ caller[l].pc = "c_servers" /\ caller'[l].pc = "c_post") =>
         LET addr == CanonSeeds[1]
             unknown == NewDefaultServer(addr)
             lb == LoadBalancerServer(addr)
         IN /\ Len(evlog') = 3
            /\ evlog'[1].type = "TopologyDescriptionChanged"
            /\ evlog'[1].prev = EmptyTopology
            /\ evlog'[1].cur.Kind = "LoadBalanced"
            /\ evlog'[1].cur.Servers = <<unknown>>
            /\ evlog'[2] = ServerDescriptionChanged(unknown, lb)
            /\ evlog'[3].type = "TopologyDescriptionChanged"
            /\ evlog'[3].prev = evlog'[1].cur
            /\ evlog'[3].cur.Kind = "LoadBalanced"
            /\ evlog'[3].cur.Servers = <<lb>>
            /\ desc'.Kind = "LoadBalanced"
            /\ desc'.Servers = <<lb>>
    ]_vars

\* C26: every command of an operation (the operation itself, or each batch
\* of one that is split) gets at most 2 wire attempts and at most 1 when the
\* operation is not retryable; an attempt is the first of its command or
\* the retry of an attempt that failed, so a command whose first attempt
\* succeeds gets exactly 1.
C26_AtMostOnceRetry ==
  /\ [](/\ exec.attempts <= 2
        /\ ~exec.retryable => exec.attempts <= 1
        /\ exec.sent <= 2 * exec.cmds)
  /\ [][exec'.sent # exec.sent =>
          /\ exec'.sent = exec.sent + 1
          /\ \/ exec'.attempts = 1 /\ exec.fresh /\ exec'.cmds = exec.cmds + 1
             \/ /\ exec'.attempts = 2 /\ exec.attempts = 1 /\ ~exec.fresh
                /\ exec.retryable /\ exec'.cmds = exec.cmds
          /\ (exec'.next > exec.next \/ exec'.result = "ok") => exec'.fresh
          /\ ~exec'.fresh =>
               (exec'.next = exec.next /\ exec'.delivered = exec.delivered)
       ]_vars

\* C26 witness: a split insert ended well after one of its commands was
\* retried.
C26_Witness ==
  /\ exec.pc = "done" /\ exec.result = "ok"
  /\ exec.cmds = 2 /\ exec.sent = 3 /\ exec.attempts = 2

\* C27: the documents delivered by a bulk insert are documents of the
\* input, each at most once and in input order; an insert that ends without
\* error has delivered every document, an unordered one that ends with
\* write errors every document but the failed ones, and an ordered one
\* delivers no document after one that failed.
C27_BatchSplitCorrect ==
  /\ \A i \in 1..Len(exec.delivered) : exec.delivered[i] \in 1..exec.n
  /\ \A i, j \in 1..Len(exec.delivered) :
       i < j => exec.delivered[i] < exec.delivered[j]
  /\ \A i \in 1..Len(exec.delivered) : exec.delivered[i] \notin exec.failed
  /\ exec.result = "ok" => exec.delivered = [i \in 1..exec.n |-> i]
  /\ (exec.result = "WriteErrors" /\ ~exec.ordered) =>
       {exec.delivered[i] : i \in 1..Len(exec.delivered)} = (1..exec.n) \ exec.failed
  /\ exec.ordered =>
       \A k \in exec.failed : \A i \in 1..Len(exec.delivered) : exec.delivered[i] < k

\* C27 witness: three documents went out in two batches and all arrived.
C27_Witness ==
  /\ exec.pc = "done" /\ exec.result = "ok"
  /\ exec.n = 3 /\ exec.size = 2 /\ exec.cmds = 2
  /\ exec.delivered = <<1, 2, 3>>

\* C28: the set left by the latency window has the minimum average RTT of
\* the predicate's candidates and every server in it has an average RTT of
\* at most that minimum plus localThreshold; the server picked is one of it.
C28_LatencyWindowCorrect ==
  LET rtt == exec.rtt
      W == exec.window
      MinOf(S) == CHOOSE x \in S : \A y \in S : rtt[x] <= rtt[y]
  IN /\ W \subseteq DOMAIN rtt
     /\ DOMAIN rtt # {} =>
          /\ W # {}
          /\ rtt[MinOf(W)] = rtt[MinOf(DOMAIN rtt)]
          /\ \A c \in W : rtt[c] <= rtt[MinOf(W)] + exec.threshold
     /\ exec.pc = "send" => exec.selected \in W
     /\ exec.result = "ServerSelectionTimeout" => DOMAIN rtt = {}

\* C28 witness: of three candidates the window kept two with different
\* average RTTs and dropped the third.
C28_Witness ==
  /\ exec.pc = "send"
  /\ DOMAIN exec.rtt = ExecAddrs
  /\ Cardinality(exec.window) = 2
  /\ \E x, y \in exec.window : exec.rtt[x] < exec.rtt[y]

C31_NoDeploymentNoEffect ==
  [][(exec'.runs > 0 /\ ~exec'.deployment) =>
       /\ exec'.op \in {"Insert", "Count", "Distinct", "CreateIndexes", "DropIndexes"}
       /\ exec'.pc = "done"
       /\ exec'.result = "ErrNoDeployment"
       /\ exec'.selected = "" /\ exec'.window = {}
       /\ exec'.cmds = 0 /\ exec'.sent = 0
       /\ exec'.replies = <<>> /\ exec'.delivered = <<>>
       /\ exec'.N = exec.N
    ]_vars

\* C31 witness: an operation whose first Execute left a result was executed
\* again without a deployment and got the error, its result still in place.
C31_Witness ==
  /\ exec.runs = 2 /\ ~exec.deployment
  /\ exec.result = "ErrNoDeployment"
  /\ exec.N # 0

\* C40: for an insert on a fresh Insert operation executed as k batches whose
\* replies report n_1..n_k inserted documents, Result().N equals
\* n_1 + ... + n_k in int32 arithmetic: each processed reply adds its n to
\* the running total and never overwrites the count of an earlier batch; when
\* every batch succeeds and reports its own size, N is the number of
\* documents.
C40_ResultSumsReplies ==
  LET add(a, b) == IF a > 0 /\ b > 2147483647 - a
                   THEN ((a - 2147483647) - 1) + ((b - 2147483647) - 1)
                   ELSE a + b
      sum[i \in 0..Len(exec.replies)] ==
        IF i = 0 THEN 0 ELSE add(sum[i - 1], exec.replies[i])
  IN (exec.op = "Insert" /\ exec.runs = 1) =>
       /\ exec.N = sum[Len(exec.replies)]
       /\ (/\ exec.result = "ok"
           /\ \A i \in 1..Len(exec.replies) : exec.replies[i] <= MaxDocs) =>
            exec.N = exec.n

\* C40 witness: a fresh insert of three documents ran as two batches that
\* reported 2 and 1, and the result is 3.
C40_Witness ==
  /\ exec.op = "Insert" /\ exec.runs = 1
  /\ exec.pc = "done" /\ exec.result = "ok"
  /\ exec.replies = <<2, 1>>
  /\ exec.N = 3

\* C32: StartSession does not communicate with the server and does not error
\* when the client is disconnected: on a client that was never connected,
\* and on a client that was connected and then disconnected, StartSession
\* returns a session.
C32_StartSessionNeverFails ==
  [][exec'.mongo.session # exec.mongo.session =>
       /\ exec'.mongo.session = "session"
       /\ exec'.sent = exec.sent /\ exec'.cmds = exec.cmds
    ]_vars

\* C33: the servers of a topology description form a set keyed by canonical
\* address: in every reachable state, including after Connect with a seed
\* list that holds two spellings of one address and after SRV additions, no
\* two server descriptions of the FSM topology or of the snapshot have the
\* same address.
C33_ServersKeyedByAddress ==
  /\ \A i, j \in 1..Len(fsm.Servers) :
       fsm.Servers[i].Addr = fsm.Servers[j].Addr => i = j
  /\ \A i, j \in 1..Len(desc.Servers) :
       desc.Servers[i].Addr = desc.Servers[j].Addr => i = j

\* C34: a description delivered by a monitor whose address is no longer in
\* the FSM (removed by an FSM transition or by an SRV update), or delivered
\* after Disconnect has marked the servers closed, is returned to the monitor
\* unchanged and leaves the FSM, the snapshot, the monitor map and the
\* subscribers unchanged, with no event published.
C34_StaleDeliveryIsDropped ==
  [][(/\ nUpdates' # nUpdates
      /\ \/ serversClosed
         \/ \A i \in 1..Len(fsm.Servers) : fsm.Servers[i].Addr # upd'.arg.Addr) =>
       /\ upd'.ret = upd'.arg
       /\ upd'.kind = upd.kind /\ upd'.stage = upd.stage
       /\ UNCHANGED <<fsm, desc, servers, serversClosed, subscribers, chans, evlog,
                      currentSubscriberID, subscriptionsClosed, connectionstate>>
    ]_vars

\* C34 witness: the monitor of a, whose address an FSM transition had
\* removed, delivered a description that came back unchanged while the
\* topology was still open.
C34_Witness ==
  /\ nUpdates = 2
  /\ ~serversClosed
  /\ upd.arg.Addr = "a" /\ upd.ret = upd.arg
  /\ "a" \in monitored
  /\ \A i \in 1..Len(fsm.Servers) : fsm.Servers[i].Addr # "a"

\* C35: with SRV polling enabled, Disconnect always terminates: in whichever
\* state the polling task is (waiting for a tick, resolving DNS, processing
\* a result, or stopped after seeing a kind other than Unknown and Sharded
\* or closed servers), it eventually receives the single done signal sent by
\* Disconnect and exits, after which Disconnect completes; the polling task
\* never exits before that signal.
C35_DisconnectEndsPolling ==
  /\ [][(poll.pc # "off" /\ poll'.pc = "off") =>
          /\ poll.pc \in {"wait", "stopped"}
          /\ caller["l1"].pc = "d_poll" /\ caller'["l1"].pc = "d_store"]_vars
  /\ [](caller["l1"].pc \in {"d_store", "d_fin"} => poll.pc = "off")
  /\ (pollingRequired /\ caller["l1"].pc = "Disconnect"
         /\ connectionstate = "connected"
         /\ poll.pc \in {"wait", "process", "publishing", "stopped"})
        ~> (caller["l1"] = [pc |-> "idle", ret |-> "ok"]
              /\ connectionstate = "disconnected" /\ poll.pc = "off")

\* C35 witness: Disconnect has reached its done signal while the polling
\* task, having seen closed servers or another kind, no longer polls.
C35_Witness ==
  /\ pollingRequired
  /\ caller["l1"].pc = "d_poll"
  /\ poll.pc = "stopped"
  /\ nPolls >= 1

\* C36: whenever the topology is Connected and no update holds the topology
\* mutex, the published snapshot equals the FSM's current topology in every
\* field (kind, servers, set name, session timeout, compatibility error):
\* after Connect with a configured replicaSetName, after every monitor
\* update and after every SRV update.
C36_SnapshotEqualsFsm ==
  (connectionstate = "connected" /\ serversLock = "free") =>
    /\ desc.Kind = fsm.Kind
    /\ desc.Servers = fsm.Servers
    /\ desc.SetName = fsm.SetName
    /\ desc.SessionTimeoutMinutes = fsm.SessionTimeoutMinutes
    /\ desc.CompatibilityErr = fsm.CompatibilityErr

C38_ReconnectLikeFresh ==
  [][\A l \in Callers :
       (caller[l].pc = "c_servers" /\ caller'[l].pc = "c_post") =>
         /\ \A i \in 1..Len(CanonSeeds) :
              /\ Cardinality({j \in 1..Len(desc'.Servers) :
                                desc'.Servers[j].Addr = CanonSeeds[i]}) = 1
              /\ CanonSeeds[i] \in DOMAIN servers'
              /\ servers'[CanonSeeds[i]] = "running"
         /\ ~serversClosed'
    ]_vars

\* C39: a SelectServer call that is waiting on its subscription when the
\* topology is disconnected returns an error as a consequence of the
\* disconnect: the receive from the channel that Disconnect closed ends the
\* call with an error; the call does not evaluate the empty description it
\* read and go back to waiting for the timeout or the context.
C39_DisconnectEndsSelection ==
  [][\A q \in Selectors :
       (/\ sel[q].pc = "wait" /\ sel'[q].pc # "wait"
        /\ chans[q].closed /\ chans[q].buf = <<>>) =>
         (sel'[q].pc \in {"unsub", "done"} /\ sel'[q].result # "ok")]_vars
====
